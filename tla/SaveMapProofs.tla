----------------------------- MODULE SaveMapProofs -----------------------------
(***************************************************************************)
(* Proofs about SaveMap, for worlds, runs and buffers of any size: the      *)
(* types, that a load that succeeds restores the world that was saved, and  *)
(* that a save that succeeded can be loaded.                               *)
(*                                                                         *)
(* What a code says is not defined by reading it from its beginning, which  *)
(* would be a recursion, but by the marks a reader passes: there is a mark   *)
(* before each byte and one at the end, and each byte takes the reader from  *)
(* its mark to the next.                                                   *)
(***************************************************************************)
EXTENDS SaveMap, SequenceTheorems, TLAPS

USE SizeAssumption, BlockAssumption, PlayerAssumption

Byte == 0 .. 2 * MAX_RUN + 1

(* A reader is at an index of the world; after a flag it has a run to store. *)
Mark  == [at : 0..MAP_SIZE, run : 0..MAX_RUN]
At(n) == [at |-> n, run |-> 0]

(* Byte b takes a reader that restores world wd from mark m to mark n. *)
Reads(b, wd, m, n) ==
  \/ /\ m.run = 0 /\ IsFlag(b) /\ RunLength(b) > 0
     /\ n = [at |-> m.at, run |-> RunLength(b)]
  \/ /\ m.run = 0 /\ m.at < MAP_SIZE /\ ~IsFlag(b) /\ wd[m.at] = b
     /\ n = At(m.at + 1)
  \/ /\ m.run > 0 /\ m.at + m.run <= MAP_SIZE
     /\ \A k \in m.at .. m.at + m.run - 1 : wd[k] = b
     /\ n = At(m.at + m.run)

Coded(bytes, wd, marks) ==
  /\ marks \in [1 .. Len(bytes) + 1 -> Mark] /\ marks[1] = At(0)
  /\ \A k \in 1..Len(bytes) : Reads(bytes[k], wd, marks[k], marks[k + 1])

(* The bytes code the first n blocks; they are the beginning of such a code. *)
CodesTo(bytes, wd, n) ==
  \E marks : Coded(bytes, wd, marks) /\ marks[Len(bytes) + 1] = At(n)
Begins(bytes, wd) == \E marks : Coded(bytes, wd, marks)

-----------------------------------------------------------------------------
(* Sequences of bytes *)

LEMMA Joined ==
  ASSUME NEW s \in Seq(Byte), NEW t \in Seq(Byte)
  PROVE  /\ s \o t \in Seq(Byte)
         /\ Len(s) \in Nat /\ Len(t) \in Nat /\ Len(s \o t) = Len(s) + Len(t)
         /\ \A k \in 1..Len(s) : (s \o t)[k] = s[k]
         /\ \A k \in 1..Len(t) : (s \o t)[Len(s) + k] = t[k]
<1> DEFINE c == s \o t
<1>1. Len(s) \in Nat /\ Len(t) \in Nat
  BY LenProperties
<1>2. /\ c \in Seq(Byte) /\ Len(c) = Len(s) + Len(t)
      /\ \A k \in 1..Len(s) + Len(t) : c[k] = IF k <= Len(s) THEN s[k] ELSE t[k - Len(s)]
  BY ConcatProperties
<1> HIDE DEF c
<1>3. \A k \in 1..Len(s) : c[k] = s[k]
  BY <1>1, <1>2
<1>4. ASSUME NEW k \in 1..Len(t) PROVE c[Len(s) + k] = t[k]
  <2>1. /\ Len(s) + k \in 1..Len(s) + Len(t) /\ ~(Len(s) + k <= Len(s))
        /\ (Len(s) + k) - Len(s) = k
    BY <1>1
  <2> QED
    BY <1>2, <2>1
<1> QED
  BY <1>1, <1>2, <1>3, <1>4 DEF c

LEMMA JoinedThree ==
  ASSUME NEW s \in Seq(Byte), NEW t \in Seq(Byte), NEW u \in Seq(Byte)
  PROVE  (s \o t) \o u = s \o (t \o u)
BY ConcatAssociative

(* A part of a sequence of bytes. *)
LEMMA Part ==
  ASSUME NEW s \in Seq(Byte), NEW m \in 1 .. Len(s) + 1, NEW n \in m - 1 .. Len(s)
  PROVE  /\ SubSeq(s, m, n) \in Seq(Byte)
         /\ Len(SubSeq(s, m, n)) = n - m + 1
         /\ \A k \in 1 .. n - m + 1 : SubSeq(s, m, n)[k] = s[m + k - 1]
<1>1. Len(s) \in Nat
  BY LenProperties
<1>2. \A k \in m..n : s[k] \in Byte
  BY <1>1, ElementOfSeq
<1>3. m \in Int /\ n \in Int
  BY <1>1
<1>4. /\ SubSeq(s, m, n) \in Seq(Byte)
      /\ Len(SubSeq(s, m, n)) = IF m <= n THEN n - m + 1 ELSE 0
      /\ \A k \in 1 .. n - m + 1 : SubSeq(s, m, n)[k] = s[m + k - 1]
  BY <1>2, <1>3, SubSeqProperties
<1>5. m <= n \/ n - m + 1 = 0
  BY <1>1
<1> QED
  BY <1>4, <1>5

(* Its two parts make up a sequence. *)
LEMMA Parts ==
  ASSUME NEW s \in Seq(Byte), NEW n \in 0..Len(s)
  PROVE  SubSeq(s, 1, n) \o SubSeq(s, n + 1, Len(s)) = s
<1>1. Len(s) \in Nat
  BY LenProperties
<1>2. 1 \in 1 .. Len(s) + 1 /\ n \in 0..Len(s) /\ Len(s) \in n..Len(s)
  BY <1>1
<1>3. SubSeq(s, 1, n) \o SubSeq(s, n + 1, Len(s)) = SubSeq(s, 1, Len(s))
  <2>1. n \in 1 - 1 .. Len(s)
    BY <1>1
  <2> QED
    BY <1>2, <2>1, ConcatAdjacentSubSeq
<1> QED
  BY <1>3, SubSeqFull

-----------------------------------------------------------------------------
(* Codes *)

LEMMA NothingCoded ==
  ASSUME NEW wd
  PROVE  /\ CodesTo(<<>>, wd, 0) /\ Begins(<<>>, wd)
<1> DEFINE ms == [k \in 1..1 |-> At(0)]
<1>1. At(0) \in Mark
  BY DEF At, Mark
<1>2. ms \in [1 .. Len(<<>>) + 1 -> Mark] /\ ms[1] = At(0) /\ Len(<<>>) = 0
  BY <1>1
<1> HIDE DEF ms
<1>3. Coded(<<>>, wd, ms) /\ ms[Len(<<>>) + 1] = At(0)
  BY <1>2 DEF Coded
<1> QED
  BY <1>3 DEF CodesTo, Begins

LEMMA OneMoreByte ==
  ASSUME NEW bytes \in Seq(Byte), NEW x \in Byte, NEW wd, NEW ms,
         Coded(bytes, wd, ms),
         NEW n \in Mark, Reads(x, wd, ms[Len(bytes) + 1], n)
  PROVE  \E ns : /\ Coded(Append(bytes, x), wd, ns)
                 /\ ns[Len(Append(bytes, x)) + 1] = n
<1> DEFINE l  == Len(bytes)
           ns == [k \in 1 .. l + 2 |-> IF k = l + 2 THEN n ELSE ms[k]]
           more == Append(bytes, x)
<1>1. /\ l \in Nat /\ Len(more) = l + 1 /\ more[l + 1] = x
      /\ \A k \in 1..l : more[k] = bytes[k]
  BY AppendProperties, LenProperties
<1>2. ms \in [1 .. l + 1 -> Mark] /\ ms[1] = At(0)
  BY DEF Coded
<1>3. /\ ns \in [1 .. l + 2 -> Mark] /\ ns[1] = At(0) /\ ns[l + 2] = n
      /\ \A k \in 1 .. l + 1 : ns[k] = ms[k]
  BY <1>1, <1>2
<1> HIDE DEF ns, more
<1>4. ASSUME NEW k \in 1 .. l + 1
      PROVE  Reads(more[k], wd, ns[k], ns[k + 1])
  <2>1. CASE k = l + 1
    <3>1. ns[k] = ms[l + 1] /\ ns[k + 1] = n /\ more[k] = x
      BY <1>1, <1>3, <2>1
    <3> QED
      BY <3>1
  <2>2. CASE k \in 1..l
    <3>1. ns[k] = ms[k] /\ ns[k + 1] = ms[k + 1] /\ more[k] = bytes[k]
      BY <1>1, <1>3, <2>2
    <3> QED
      BY <2>2, <3>1 DEF Coded
  <2> QED
    BY <1>1, <2>1, <2>2
<1>5. Coded(more, wd, ns)
  BY <1>1, <1>3, <1>4 DEF Coded
<1>6. ns[Len(more) + 1] = n
  BY <1>1, <1>3
<1> QED
  BY <1>5, <1>6 DEF more

(* A block by itself, and a run of blocks, go on where a code has got to. *)
LEMMA BlockCoded ==
  ASSUME NEW bytes \in Seq(Byte), NEW wd, NEW n \in 0 .. MAP_SIZE - 1,
         CodesTo(bytes, wd, n), wd[n] \in Block
  PROVE  CodesTo(Append(bytes, wd[n]), wd, n + 1)
<1>1. PICK ms : Coded(bytes, wd, ms) /\ ms[Len(bytes) + 1] = At(n)
  BY DEF CodesTo
<1>2. wd[n] \in Byte /\ ~IsFlag(wd[n])
  <2>1. wd[n] \in 0..MAX_RUN
    OBVIOUS
  <2> HIDE BlockAssumption
  <2> QED
    BY <2>1 DEF Byte, IsFlag
<1>3. At(n + 1) \in Mark
  BY DEF At, Mark
<1>4. Reads(wd[n], wd, At(n), At(n + 1))
  BY <1>2 DEF Reads, At
<1> QED
  BY <1>1, <1>2, <1>3, <1>4, OneMoreByte DEF CodesTo

LEMMA RunCoded ==
  ASSUME NEW bytes \in Seq(Byte), NEW wd, NEW n \in 0..MAP_SIZE, NEW r \in 1..MAX_RUN,
         NEW b \in Block,
         CodesTo(bytes, wd, n), n + r <= MAP_SIZE,
         \A k \in n .. n + r - 1 : wd[k] = b
  PROVE  CodesTo(Append(Append(bytes, RunFlag(r)), b), wd, n + r)
<1> DEFINE f == RunFlag(r)
           m == [at |-> n, run |-> r]
           more == Append(bytes, f)
<1>1. PICK ms : Coded(bytes, wd, ms) /\ ms[Len(bytes) + 1] = At(n)
  BY DEF CodesTo
<1>2. f \in Byte /\ b \in Byte /\ IsFlag(f) /\ RunLength(f) = r
  BY DEF Byte, IsFlag, RunFlag, RunLength
<1>3. At(n + r) \in Mark /\ m \in Mark
  BY DEF At, Mark
<1>4. Reads(f, wd, At(n), m)
  BY <1>2 DEF Reads, At
<1>5. Reads(b, wd, m, At(n + r))
  BY DEF Reads
<1> HIDE DEF f, m
<1>6. PICK ns : Coded(more, wd, ns) /\ ns[Len(more) + 1] = m
  BY <1>1, <1>2, <1>3, <1>4, OneMoreByte
<1>7. more \in Seq(Byte)
  BY <1>2, AppendProperties
<1> HIDE DEF more
<1>8. CodesTo(Append(more, b), wd, n + r)
  BY <1>2, <1>3, <1>5, <1>6, <1>7, OneMoreByte DEF CodesTo
<1> QED
  BY <1>8 DEF more, f

(* The beginning of a code that was cut short. *)
LEMMA CutShort ==
  ASSUME NEW bytes \in Seq(Byte), NEW cut \in Seq(Byte), NEW wd,
         Begins(bytes, wd), Len(cut) <= Len(bytes),
         \A k \in 1..Len(cut) : cut[k] = bytes[k]
  PROVE  Begins(cut, wd)
<1>1. PICK ms : Coded(bytes, wd, ms)
  BY DEF Begins
<1> DEFINE ns == [k \in 1 .. Len(cut) + 1 |-> ms[k]]
<1>2. Len(cut) \in Nat /\ Len(bytes) \in Nat
  BY LenProperties
<1>3. /\ ns \in [1 .. Len(cut) + 1 -> Mark] /\ ns[1] = At(0)
      /\ \A k \in 1 .. Len(cut) + 1 : ns[k] = ms[k]
  BY <1>1, <1>2 DEF Coded
<1> HIDE DEF ns
<1>4. ASSUME NEW k \in 1..Len(cut)
      PROVE  Reads(cut[k], wd, ns[k], ns[k + 1])
  <2>1. ns[k] = ms[k] /\ ns[k + 1] = ms[k + 1] /\ cut[k] = bytes[k] /\ k \in 1..Len(bytes)
    BY <1>2, <1>3
  <2> QED
    BY <1>1, <2>1 DEF Coded
<1>5. Coded(cut, wd, ns)
  BY <1>3, <1>4 DEF Coded
<1> QED
  BY <1>5 DEF Begins

LEMMA CodesBegin ==
  ASSUME NEW bytes, NEW wd, NEW n, CodesTo(bytes, wd, n) PROVE Begins(bytes, wd)
BY DEF CodesTo, Begins

-----------------------------------------------------------------------------
(* Writing *)

(* f_write: whatever the card takes, the file holds the beginning of the code, *)
(* and all the data unless an error is on record.                           *)
LEMMA Written ==
  ASSUME file \in File, io_error \in BOOLEAN, success \in {0, 1},
         success = 1 <=> ~io_error,
         NEW data \in Seq(Byte), data # <<>>, Write(data),
         NEW wd, Begins(file.bytes, wd),
         ~io_error => Begins(file.bytes \o data, wd)
  PROVE  /\ file' \in File /\ file'.exists = file.exists /\ file'.header = file.header
         /\ io_error' \in BOOLEAN /\ success' \in {0, 1} /\ (success' = 1 <=> ~io_error')
         /\ Begins(file'.bytes, wd)
         /\ ~io_error' => ~io_error /\ file'.bytes = file.bytes \o data
<1> DEFINE old == file.bytes
           all == old \o data
<1>1. old \in Seq(Byte) /\ Len(old) \in Nat /\ Len(data) \in Nat \ {0}
  BY EmptySeq, LenProperties DEF File, Byte
<1>2. PICK bw \in 0..Len(data) :
        /\ io_error => bw = 0
        /\ file' = [file EXCEPT !.bytes = old \o SubSeq(data, 1, bw)]
        /\ io_error' = (bw < Len(data))
        /\ success' = IF bw < Len(data) THEN 0 ELSE success
  BY DEF Write
<1> DEFINE took == SubSeq(data, 1, bw)
           new  == old \o took
<1>3. /\ took \in Seq(Byte) /\ Len(took) = bw
      /\ \A k \in 1..bw : took[k] = data[k]
  <2>1. 1 \in 1 .. Len(data) + 1 /\ bw \in 1 - 1 .. Len(data) /\ bw - 1 + 1 = bw
    BY <1>1
  <2>2. \A k \in 1..bw : 1 + k - 1 = k
    OBVIOUS
  <2> QED
    BY <2>1, <2>2, Part
<1> HIDE DEF old, took
<1>4. /\ new \in Seq(Byte) /\ Len(new) = Len(old) + bw
      /\ all \in Seq(Byte) /\ Len(all) = Len(old) + Len(data)
      /\ \A k \in 1..Len(new) : new[k] = all[k]
      /\ \A k \in 1..Len(old) : all[k] = old[k]
  <2>1. /\ new \in Seq(Byte) /\ Len(new) = Len(old) + bw
        /\ \A k \in 1..Len(old) : new[k] = old[k]
        /\ \A k \in 1..bw : new[Len(old) + k] = took[k]
    BY <1>1, <1>3, Joined
  <2>2. /\ all \in Seq(Byte) /\ Len(all) = Len(old) + Len(data)
        /\ \A k \in 1..Len(old) : all[k] = old[k]
        /\ \A k \in 1..Len(data) : all[Len(old) + k] = data[k]
    BY <1>1, Joined
  <2> HIDE DEF new, all
  <2>3. ASSUME NEW k \in 1..Len(new) PROVE new[k] = all[k]
    <3>1. CASE k <= Len(old)
      BY <1>1, <2>1, <2>2, <3>1
    <3>2. CASE ~(k <= Len(old))
      <4>1. k - Len(old) \in 1..bw /\ k - Len(old) \in 1..Len(data) /\ k = Len(old) + (k - Len(old))
        BY <1>1, <2>1, <3>2
      <4>2. new[k] = took[k - Len(old)] /\ all[k] = data[k - Len(old)]
        BY <2>1, <2>2, <4>1
      <4> QED
        BY <1>3, <4>1, <4>2
    <3> QED
      BY <3>1, <3>2
  <2> QED
    BY <2>1, <2>2, <2>3
<1> HIDE DEF new, took
<1>5. /\ file' \in File /\ file'.exists = file.exists /\ file'.header = file.header
      /\ file'.bytes = new
  BY <1>2, <1>4 DEF File, Byte, new, took, old
<1>6. Begins(new, wd)
  <2>1. CASE io_error
    <3>1. bw = 0
      BY <1>2, <2>1
    <3>2. Len(new) = Len(old)
      BY <1>1, <1>4, <3>1
    <3>3. new = old
      <4> HIDE DEF all
      <4> QED
        BY <1>1, <1>4, <3>2, SeqEqual
    <3> QED
      BY <3>3 DEF old
  <2>2. CASE ~io_error
    <3>1. Begins(all, wd) /\ Len(new) <= Len(all)
      BY <1>1, <1>4, <2>2 DEF old
    <3> HIDE DEF all
    <3> QED
      BY <1>4, <3>1, CutShort
  <2> QED
    BY <2>1, <2>2
<1>7. CASE bw < Len(data)
  <2>1. (bw < Len(data)) = TRUE
    BY <1>7
  <2>2. io_error' = TRUE /\ success' = 0
    BY <1>2, <2>1
  <2> QED
    BY <1>5, <1>6, <2>2 DEF old
<1>8. CASE ~(bw < Len(data))
  <2>1. (bw < Len(data)) = FALSE /\ bw = Len(data) /\ bw # 0
    BY <1>1, <1>8
  <2>2. io_error' = FALSE /\ ~io_error /\ success' = success
    BY <1>2, <2>1
  <2>3. new = all
    <3> HIDE DEF all
    <3> QED
      BY <1>4, <2>1, SeqEqual
  <2> QED
    BY <1>5, <1>6, <2>2, <2>3 DEF old
<1> QED
  BY <1>7, <1>8

(* PUSH_BYTE: what is in the file and what is in the buffer go on together.   *)
LEMMA Pushed ==
  ASSUME file \in File, io_error \in BOOLEAN, success \in {0, 1},
         success = 1 <=> ~io_error,
         buffer \in Seq(Byte), Len(buffer) < SD_BUF_SIZE,
         NEW data \in Seq(Byte), Len(data) <= 2, PushBytes(data),
         NEW wd, NEW n, Begins(file.bytes, wd),
         ~io_error => CodesTo((file.bytes \o buffer) \o data, wd, n)
  PROVE  /\ file' \in File /\ file'.exists = file.exists /\ file'.header = file.header
         /\ io_error' \in BOOLEAN /\ success' \in {0, 1} /\ (success' = 1 <=> ~io_error')
         /\ buffer' \in Seq(Byte) /\ Len(buffer') < SD_BUF_SIZE
         /\ Begins(file'.bytes, wd)
         /\ ~io_error' => CodesTo(file'.bytes \o buffer', wd, n)
<1> DEFINE all   == buffer \o data
           first == SubSeq(all, 1, SD_BUF_SIZE)
           rest  == SubSeq(all, SD_BUF_SIZE + 1, Len(all))
<1>1. file.bytes \in Seq(Byte)
  BY DEF File, Byte
<1>2. all \in Seq(Byte) /\ Len(all) = Len(buffer) + Len(data)
  BY Joined
<1>3. (file.bytes \o buffer) \o data = file.bytes \o all
  BY <1>1, JoinedThree
<1>4. CASE Len(all) < SD_BUF_SIZE
  <2>1. buffer' = all /\ UNCHANGED <<file, io_error, success>>
    BY <1>4 DEF PushBytes
  <2> HIDE DEF all
  <2> QED
    BY <1>2, <1>3, <1>4, <2>1
<1>5. CASE ~(Len(all) < SD_BUF_SIZE)
  <2>1. Write(first) /\ buffer' = rest
    BY <1>5 DEF PushBytes
  <2>2. /\ Len(buffer) \in Nat /\ Len(data) \in Nat /\ Len(all) \in Nat
        /\ SD_BUF_SIZE <= Len(all) /\ Len(all) <= SD_BUF_SIZE + 1
    BY <1>2, <1>5, LenProperties
  <2> HIDE DEF all
  <2>3. first \in Seq(Byte) /\ Len(first) = SD_BUF_SIZE
    <3>1. /\ 1 \in 1 .. Len(all) + 1 /\ SD_BUF_SIZE \in 1 - 1 .. Len(all)
          /\ SD_BUF_SIZE - 1 + 1 = SD_BUF_SIZE
      BY <2>2
    <3> QED
      BY <1>2, <3>1, Part
  <2>4. rest \in Seq(Byte) /\ Len(rest) <= 1
    <3>1. /\ SD_BUF_SIZE + 1 \in 1 .. Len(all) + 1
          /\ Len(all) \in (SD_BUF_SIZE + 1) - 1 .. Len(all)
          /\ Len(all) - (SD_BUF_SIZE + 1) + 1 <= 1
      BY <2>2
    <3>2. rest \in Seq(Byte) /\ Len(rest) = Len(all) - (SD_BUF_SIZE + 1) + 1
      BY <1>2, <3>1, Part
    <3> QED
      BY <3>1, <3>2
  <2>5. first \o rest = all
    <3>1. SD_BUF_SIZE \in 0..Len(all)
      BY <2>2
    <3> QED
      BY <1>2, <3>1, Parts
  <2> HIDE DEF first, rest
  <2>6. first # <<>>
    BY <2>3, EmptySeq
  <2>7. (file.bytes \o first) \o rest = file.bytes \o all
    BY <1>1, <2>3, <2>4, <2>5, JoinedThree
  <2>8. ~io_error => Begins(file.bytes \o first, wd)
    <3> SUFFICES ASSUME ~io_error PROVE Begins(file.bytes \o first, wd)
      OBVIOUS
    <3>1. Begins(file.bytes \o all, wd)
      BY <1>3, CodesBegin
    <3>2. file.bytes \o first \in Seq(Byte)
      BY <1>1, <2>3, Joined
    <3> DEFINE some == file.bytes \o first
    <3> HIDE DEF some
    <3>3. /\ some \o rest \in Seq(Byte) /\ Len(some) <= Len(some \o rest)
          /\ \A k \in 1..Len(some) : some[k] = (some \o rest)[k]
      BY <2>4, <3>2, Joined DEF some
    <3>4. Begins(some \o rest, wd)
      BY <2>7, <3>1 DEF some
    <3>5. Begins(some, wd)
      BY <3>2, <3>3, <3>4, CutShort DEF some
    <3> QED
      BY <3>5 DEF some
  <2>9. /\ file' \in File /\ file'.exists = file.exists /\ file'.header = file.header
        /\ io_error' \in BOOLEAN /\ success' \in {0, 1} /\ (success' = 1 <=> ~io_error')
        /\ Begins(file'.bytes, wd)
        /\ ~io_error' => ~io_error /\ file'.bytes = file.bytes \o first
    BY <2>1, <2>3, <2>6, <2>8, Written
  <2>10. ~io_error' => CodesTo(file'.bytes \o buffer', wd, n)
    BY <1>3, <2>1, <2>7, <2>9
  <2>11. buffer' \in Seq(Byte) /\ Len(buffer') < SD_BUF_SIZE
    BY <2>1, <2>4, LenProperties
  <2> QED
    BY <2>9, <2>10, <2>11
<1> QED
  BY <1>4, <1>5

-----------------------------------------------------------------------------
(* The code of a run *)

LEMMA OneByte ==
  ASSUME NEW s \in Seq(Byte), NEW x \in Byte
  PROVE  <<x>> \in Seq(Byte) /\ Len(<<x>>) = 1 /\ s \o <<x>> = Append(s, x)
BY AppendIsConcat

LEMMA TwoBytes ==
  ASSUME NEW s \in Seq(Byte), NEW x \in Byte, NEW y \in Byte
  PROVE  /\ <<x, y>> \in Seq(Byte) /\ Len(<<x, y>>) = 2
         /\ s \o <<x, y>> = Append(Append(s, x), y)
<1>1. <<x>> \in Seq(Byte) /\ <<y>> \in Seq(Byte)
  BY OneByte
<1>2. <<x, y>> = <<x>> \o <<y>>
  <2>1. <<x, y>> = Append(<<x>>, y)
    OBVIOUS
  <2> QED
    BY <1>1, <2>1, OneByte
<1>3. s \o (<<x>> \o <<y>>) = (s \o <<x>>) \o <<y>>
  BY <1>1, JoinedThree
<1>4. s \o <<x>> = Append(s, x) /\ Append(s, x) \in Seq(Byte)
  BY OneByte, AppendProperties
<1>5. Append(s, x) \o <<y>> = Append(Append(s, x), y)
  BY <1>4, OneByte
<1> QED
  BY <1>2, <1>3, <1>4, <1>5

(* The three forms of the code of a run. *)
LEMMA RunCodeForms ==
  ASSUME run_count \in 1..MAX_RUN
  PROVE  \/ run_count \in 3..MAX_RUN /\ RunCode = <<RunFlag(run_count), current_block>>
         \/ run_count = 2 /\ RunCode = <<current_block, current_block>>
         \/ run_count = 1 /\ RunCode = <<current_block>>
<1>1. CASE run_count >= 3
  BY <1>1 DEF RunCode
<1>2. CASE run_count = 2
  <2>1. ~(run_count >= 3) /\ 1..run_count = 1..2
    BY <1>2
  <2>2. RunCode = [k \in 1..2 |-> current_block]
    BY <2>1 DEF RunCode
  <2> QED
    BY <1>2, <2>2
<1>3. CASE run_count = 1
  <2>1. ~(run_count >= 3) /\ 1..run_count = 1..1
    BY <1>3
  <2>2. RunCode = [k \in 1..1 |-> current_block]
    BY <2>1 DEF RunCode
  <2> QED
    BY <1>3, <2>2
<1> QED
  BY <1>1, <1>2, <1>3

(* It is at most two bytes, and it takes a code on by the run. *)
LEMMA RunCodeCodes ==
  ASSUME current_block \in Block, run_count \in 1..MAX_RUN
  PROVE  /\ RunCode \in Seq(Byte) /\ Len(RunCode) <= 2
         /\ \A bytes \in Seq(Byte), n \in 0..MAP_SIZE : \A wd :
              /\ CodesTo(bytes, wd, n) /\ n + run_count <= MAP_SIZE
              /\ \A k \in n .. n + run_count - 1 : wd[k] = current_block
              => CodesTo(bytes \o RunCode, wd, n + run_count)
<1> DEFINE b == current_block
           r == run_count
<1>1. b \in Byte /\ r \in 1..MAX_RUN /\ RunFlag(r) \in Byte
  BY DEF Byte, RunFlag
<1>2. RunCode \in Seq(Byte) /\ Len(RunCode) <= 2
  <2>1. <<>> \in Seq(Byte)
    OBVIOUS
  <2>2. <<b>> \in Seq(Byte) /\ Len(<<b>>) = 1
    BY <1>1, <2>1, OneByte
  <2>3. /\ <<b, b>> \in Seq(Byte) /\ Len(<<b, b>>) = 2
        /\ <<RunFlag(r), b>> \in Seq(Byte) /\ Len(<<RunFlag(r), b>>) = 2
    BY <1>1, <2>1, TwoBytes
  <2>4. CASE RunCode = <<b>>
    BY <2>2, <2>4
  <2>5. CASE RunCode = <<b, b>> \/ RunCode = <<RunFlag(r), b>>
    <3>1. RunCode \in Seq(Byte) /\ Len(RunCode) = 2
      BY <2>3, <2>5, Zenon
    <3> QED
      BY <3>1
  <2> QED
    BY <2>4, <2>5, RunCodeForms
<1>3. ASSUME NEW bytes \in Seq(Byte), NEW n \in 0..MAP_SIZE, NEW wd,
             CodesTo(bytes, wd, n), n + r <= MAP_SIZE,
             \A k \in n .. n + r - 1 : wd[k] = b
      PROVE  CodesTo(bytes \o RunCode, wd, n + r)
  <2>1. CASE r \in 3..MAX_RUN /\ RunCode = <<RunFlag(r), b>>
    <3>1. CodesTo(Append(Append(bytes, RunFlag(r)), b), wd, n + r)
      BY <1>1, <1>3, RunCoded
    <3> QED
      BY <1>1, <2>1, <3>1, TwoBytes
  <2>2. CASE r = 2 /\ RunCode = <<b, b>>
    <3>1. n \in 0 .. MAP_SIZE - 1 /\ n + 1 \in 0 .. MAP_SIZE - 1 /\ (n + 1) + 1 = n + r
          /\ n \in n .. n + r - 1 /\ n + 1 \in n .. n + r - 1
      BY <1>3, <2>2
    <3>2. wd[n] = b /\ wd[n + 1] = b
      BY <1>3, <3>1
    <3>3. CodesTo(Append(bytes, b), wd, n + 1)
      BY <1>3, <3>1, <3>2, BlockCoded
    <3>4. Append(bytes, b) \in Seq(Byte)
      BY <1>1, AppendProperties
    <3> DEFINE more == Append(bytes, b)
    <3> HIDE DEF more
    <3>5. CodesTo(Append(more, wd[n + 1]), wd, (n + 1) + 1)
      BY <3>1, <3>2, <3>3, <3>4, BlockCoded DEF more
    <3>6. CodesTo(Append(more, b), wd, n + r)
      BY <3>1, <3>2, <3>5
    <3> QED
      BY <1>1, <2>2, <3>6, TwoBytes DEF more
  <2>3. CASE r = 1 /\ RunCode = <<b>>
    <3>1. n \in 0 .. MAP_SIZE - 1 /\ n \in n .. n + r - 1 /\ n + 1 = n + r
      BY <1>3, <2>3
    <3>2. wd[n] = b
      BY <1>3, <3>1
    <3>3. CodesTo(Append(bytes, b), wd, n + r)
      BY <1>3, <3>1, <3>2, BlockCoded
    <3> QED
      BY <1>1, <2>3, <3>3, OneByte
  <2> QED
    BY <2>1, <2>2, <2>3, RunCodeForms
<1> QED
  BY <1>2, <1>3

-----------------------------------------------------------------------------
(* Reading *)

(* What a fetch has at hand goes on where the last one stopped, and there is  *)
(* nothing only at the end of the file or after an error.                   *)
LEMMA Refilled ==
  ASSUME file \in File, io_error \in BOOLEAN, buffer \in Seq(Byte),
         Len(buffer) < SD_BUF_SIZE, file_ptr \in 0..Len(file.bytes),
         Len(buffer) <= file_ptr,
         \A k \in 1..Len(buffer) : buffer[k] = file.bytes[file_ptr - Len(buffer) + k],
         NEW r \in Refill
  PROVE  /\ r.bytes \in Seq(Byte) /\ Len(r.bytes) <= SD_BUF_SIZE
         /\ r.ptr \in 0..Len(file.bytes) /\ r.err \in BOOLEAN
         /\ r.ptr - Len(r.bytes) = file_ptr - Len(buffer)
         /\ \A k \in 1..Len(r.bytes) :
              r.bytes[k] = file.bytes[file_ptr - Len(buffer) + k]
         /\ r.bytes = <<>> => r.err \/ file_ptr - Len(buffer) = Len(file.bytes)
<1> DEFINE all == file.bytes
           left == Len(all) - file_ptr
           most == IF left < SD_BUF_SIZE THEN left ELSE SD_BUF_SIZE
<1>1. /\ all \in Seq(Byte) /\ Len(all) \in Nat /\ Len(buffer) \in Nat
      /\ file_ptr \in Int
  BY LenProperties DEF File, Byte
<1>2. CASE buffer # <<>>
  <2>1. r = [bytes |-> buffer, ptr |-> file_ptr, err |-> io_error]
    BY <1>2 DEF Refill
  <2> QED
    BY <1>1, <1>2, <2>1
<1>3. CASE buffer = <<>>
  <2>1. Len(buffer) = 0
    BY <1>3, EmptySeq
  <2>2. PICK br \in IF io_error THEN {0} ELSE 0..most :
          r = [bytes |-> SubSeq(all, file_ptr + 1, file_ptr + br),
               ptr   |-> file_ptr + br,
               err   |-> io_error \/ br < most]
    BY <1>3 DEF Refill
  <2>3. most \in 0..SD_BUF_SIZE /\ most <= left
    BY <1>1
  <2>4. br \in 0..most
    BY <2>2, <2>3
  <2> HIDE DEF most
  <2>5. file_ptr + br \in 0..Len(all)
    BY <1>1, <2>3, <2>4
  <2> DEFINE got == SubSeq(all, file_ptr + 1, file_ptr + br)
  <2>6. /\ got \in Seq(Byte) /\ Len(got) = br
        /\ \A k \in 1..br : got[k] = all[file_ptr + k]
    <3>1. /\ file_ptr + 1 \in 1 .. Len(all) + 1
          /\ file_ptr + br \in (file_ptr + 1) - 1 .. Len(all)
          /\ (file_ptr + br) - (file_ptr + 1) + 1 = br
          /\ \A k \in 1..br : (file_ptr + 1) + k - 1 = file_ptr + k
      BY <1>1, <2>3, <2>4
    <3>2. /\ got \in Seq(Byte) /\ Len(got) = (file_ptr + br) - (file_ptr + 1) + 1
          /\ \A k \in 1 .. (file_ptr + br) - (file_ptr + 1) + 1 :
               got[k] = all[(file_ptr + 1) + k - 1]
      BY <1>1, <3>1, Part
    <3> HIDE DEF got
    <3> QED
      BY <3>1, <3>2
  <2> HIDE DEF got
  <2>7. r.bytes = got /\ r.ptr = file_ptr + br /\ r.err = (io_error \/ br < most)
    BY <2>2 DEF got
  <2>8. got = <<>> => br = 0
    BY <2>6, EmptySeq
  <2>9. br = 0 => r.err \/ file_ptr = Len(all)
    <3>1. CASE most = 0
      BY <1>1, <3>1 DEF most
    <3>2. CASE most # 0 /\ br = 0
      <4>1. (br < most) = TRUE
        BY <2>3, <3>2
      <4> QED
        BY <2>7, <4>1
    <3> QED
      BY <3>1, <3>2
  <2>10. r.err \in BOOLEAN
    BY <2>7
  <2>11. file_ptr - Len(buffer) = file_ptr /\ r.ptr - Len(r.bytes) = file_ptr
    BY <1>1, <2>1, <2>4, <2>6, <2>7
  <2>12. Len(r.bytes) <= SD_BUF_SIZE
    BY <1>1, <2>3, <2>4, <2>6, <2>7
  <2> QED
    BY <2>5, <2>6, <2>7, <2>8, <2>9, <2>10, <2>11, <2>12
<1> QED
  BY <1>2, <1>3

-----------------------------------------------------------------------------
(* The inductive invariant.  The types alone are not inductive: a byte that   *)
(* is read is a block only because the file is the code of a world.         *)

(* No file is open between calls, and a save reads nothing.                  *)
Quiet ==
  /\ pc \in Resting => file = NoFile
  /\ pc \in {"scan", "tail", "save_close"} => file_ptr = 0

(* The file on the card is the beginning of the last save, and all of it if   *)
(* that save is complete.                                                  *)
OnCard ==
  /\ card.header # <<>> => card.header = <<saved.player>>
  /\ complete => card.exists /\ card.header # <<>>
  /\ \E marks : /\ Coded(card.bytes, saved.world, marks)
                /\ complete => marks[Len(card.bytes) + 1] = At(MAP_SIZE)

(* While no write has failed, file and buffer together code the world up to   *)
(* the run that is being counted; after one has, the file holds the          *)
(* beginning of the code and the call will return 0.                       *)
Saving == pc \in {"scan", "tail", "save_close"} =>
  /\ saved = [world |-> world, player |-> player] /\ ~complete
  /\ file.exists /\ Begins(file.bytes, world)
  /\ success = 1 <=> ~io_error
  /\ file.header # <<>> => file.header = <<player>>
  /\ success = 1 => file.header # <<>>

Scanning == pc = "scan" =>
  /\ run_count \in 1..i
  /\ \A k \in i - run_count .. i - 1 : world[k] = current_block
  /\ ~io_error => CodesTo(file.bytes \o buffer, world, i - run_count)

Scanned ==
  /\ pc = "tail" /\ ~io_error => CodesTo(file.bytes \o buffer, world, MAP_SIZE)
  /\ pc = "save_close" /\ ~io_error => CodesTo(file.bytes, world, MAP_SIZE)

(* A load is at one of the marks of the code, and has restored the world up   *)
(* to there; the bytes at hand are the ones of the file that come next.     *)
Loading == pc \in {"tag", "id"} =>
  /\ success = 1 /\ file = card /\ player = saved.player
  /\ Len(buffer) <= file_ptr
  /\ \A k \in 1..Len(buffer) : buffer[k] = file.bytes[file_ptr - Len(buffer) + k]
  /\ \A k \in 0 .. sram_ptr_idx - 1 : world[k] = saved.world[k]
  /\ pc = "id" => count > 0
  /\ \E marks :
       /\ Coded(card.bytes, saved.world, marks)
       /\ complete => marks[Len(card.bytes) + 1] = At(MAP_SIZE)
       /\ marks[file_ptr - Len(buffer) + 1]
            = [at |-> sram_ptr_idx, run |-> IF pc = "id" THEN count ELSE 0]

LoadedWhole == pc \in {"load_close", "loaded"} =>
  /\ success = 1 => world = saved.world /\ player = saved.player
  /\ success = 0 /\ complete => io_error

IInv == TypeOK /\ Quiet /\ OnCard /\ Saving /\ Scanning /\ Scanned /\ Loading
        /\ LoadedWhole

LEMMA NoFileTypes == NoFile \in File /\ EmptyFile \in File
<1>1. <<>> \in Seq(0 .. 2 * MAX_RUN + 1)
  OBVIOUS
<1> QED
  BY <1>1 DEF NoFile, EmptyFile, File

LEMMA EmptyOnCard ==
  ASSUME NEW wd
  PROVE  \E marks : Coded(<<>>, wd, marks)
BY NothingCoded DEF Begins

LEMMA InitIInv == Init => IInv
<1> SUFFICES ASSUME Init PROVE IInv
  OBVIOUS
<1> USE DEF Init
<1>1. AnyBlock \in Block
  BY DEF AnyBlock
<1>2. TypeOK
  <2>1. <<>> \in Seq(0 .. 2 * MAX_RUN + 1) /\ Len(<<>>) = 0
    OBVIOUS
  <2>2. /\ card \in File /\ file \in File /\ Len(file.bytes) = 0
    BY NoFileTypes, <2>1 DEF NoFile
  <2>3. pc \in Stages
    BY DEF Stages, Resting
  <2>4. buffer \in Seq(0 .. 2 * MAX_RUN + 1) /\ Len(buffer) < SD_BUF_SIZE
    BY <2>1
  <2>5. saved \in [world : World, player : Player] /\ world \in World /\ player \in Player
    OBVIOUS
  <2>6. io_error \in BOOLEAN /\ complete \in BOOLEAN
    BY Zenon
  <2>7. /\ success \in {0, 1}
        /\ i \in 0..MAP_SIZE /\ current_block \in Block /\ run_count \in 0..MAX_RUN
        /\ file_ptr \in 0..Len(file.bytes)
        /\ sram_ptr_idx \in 0..MAP_SIZE /\ count \in 0..MAX_RUN
    BY <1>1, <2>2
  <2> QED
    BY <2>2, <2>3, <2>4, <2>5, <2>6, <2>7, Zenon DEF TypeOK
<1>3. Quiet
  BY DEF Quiet, Resting
<1>4. OnCard
  BY EmptyOnCard DEF OnCard, NoFile
<1>5. Saving /\ Scanning /\ Scanned /\ Loading /\ LoadedWhole
  BY DEF Saving, Scanning, Scanned, Loading, LoadedWhole
<1> QED
  BY <1>2, <1>3, <1>4, <1>5 DEF IInv

-----------------------------------------------------------------------------
(* Between calls *)

LEMMA StutterKeeps ==
  ASSUME IInv, UNCHANGED vars
  PROVE  IInv'
BY DEF IInv, vars, gameVars, fileVars, saveVars, loadVars, history,
       TypeOK, Quiet, OnCard, Saving, Scanning, Scanned, Loading, LoadedWhole

LEMMA PlayKeeps ==
  ASSUME IInv, Play
  PROVE  IInv'
<1> USE DEF Play, fileVars, saveVars, loadVars, history
<1>1. TypeOK'
  BY DEF IInv, TypeOK, Stages, Resting
<1>2. Quiet' /\ OnCard'
  BY DEF IInv, Quiet, OnCard, Resting
<1>3. Saving' /\ Scanning' /\ Scanned' /\ Loading' /\ LoadedWhole'
  BY DEF Saving, Scanning, Scanned, Loading, LoadedWhole
<1> QED
  BY <1>1, <1>2, <1>3 DEF IInv

(* When the locals are gone there is no file, no buffer and no count. *)
LEMMA GoneTypes ==
  ASSUME LocalsGone
  PROVE  /\ file' \in File /\ file' = NoFile
         /\ buffer' \in Seq(0 .. 2 * MAX_RUN + 1) /\ Len(buffer') < SD_BUF_SIZE
         /\ i' \in 0..MAP_SIZE /\ current_block' \in Block /\ run_count' \in 0..MAX_RUN
         /\ file_ptr' \in 0..Len(file'.bytes)
         /\ sram_ptr_idx' \in 0..MAP_SIZE /\ count' \in 0..MAX_RUN
<1> USE DEF LocalsGone
<1>1. <<>> \in Seq(0 .. 2 * MAX_RUN + 1) /\ Len(<<>>) = 0
  OBVIOUS
<1>2. AnyBlock \in Block
  BY DEF AnyBlock
<1>3. file' \in File /\ file' = NoFile /\ Len(file'.bytes) = 0
  BY <1>1, NoFileTypes DEF NoFile
<1> QED
  BY <1>1, <1>2, <1>3

LEMMA PowerOffKeeps ==
  ASSUME IInv, PowerOff
  PROVE  IInv'
<1> USE DEF PowerOff, history
<1>1. TypeOK'
  BY GoneTypes DEF IInv, TypeOK, Stages, Resting
<1>2. Quiet' /\ OnCard'
  BY GoneTypes DEF IInv, Quiet, OnCard, Resting
<1>3. Saving' /\ Scanning' /\ Scanned' /\ Loading' /\ LoadedWhole'
  BY DEF Saving, Scanning, Scanned, Loading, LoadedWhole
<1> QED
  BY <1>1, <1>2, <1>3 DEF IInv

-----------------------------------------------------------------------------
(* A save *)

LEMMA SaveCannotOpenKeeps ==
  ASSUME IInv, SaveCannotOpen
  PROVE  IInv'
<1> USE DEF SaveCannotOpen, gameVars, fileVars, saveVars, loadVars
<1>1. card' \in File
  BY NoFileTypes DEF IInv, TypeOK
<1>2. TypeOK'
  BY <1>1 DEF IInv, TypeOK, Stages, Resting
<1>3. Quiet'
  BY DEF IInv, Quiet, Resting
<1>4. OnCard'
  <2>1. CASE UNCHANGED <<card, complete>>
    BY <2>1 DEF IInv, OnCard
  <2>2. CASE card' = EmptyFile /\ complete' = FALSE
    <3>1. card'.header = <<>> /\ card'.bytes = <<>>
      BY <2>2 DEF EmptyFile
    <3> QED
      BY <2>2, <3>1, EmptyOnCard DEF OnCard
  <2> QED
    BY <2>1, <2>2
<1>5. Saving' /\ Scanning' /\ Scanned' /\ Loading' /\ LoadedWhole'
  BY DEF Saving, Scanning, Scanned, Loading, LoadedWhole
<1> QED
  BY <1>2, <1>3, <1>4, <1>5 DEF IInv

LEMMA SaveOpenKeeps ==
  ASSUME IInv, SaveOpen
  PROVE  IInv'
<1> USE DEF SaveOpen, gameVars, loadVars
<1>1. world \in World /\ player \in Player /\ pc \in Resting
  BY DEF IInv, TypeOK
<1>2. file_ptr = 0 /\ file_ptr' = 0
  <2>1. file.bytes = <<>> /\ Len(<<>>) = 0
    BY <1>1 DEF IInv, Quiet, NoFile
  <2> QED
    BY <2>1 DEF IInv, TypeOK
<1>3. /\ file' \in File /\ file'.bytes = <<>> /\ file'.exists
      /\ file'.header # <<>> => file'.header = <<player>>
      /\ success' = 1 => file'.header # <<>>
      /\ success' \in {0, 1} /\ io_error' \in BOOLEAN
      /\ success' = 1 <=> ~io_error'
      /\ pc' \in {"scan", "save_close"} /\ (pc' = "save_close" => io_error')
  <2>1. CASE /\ file' = [EmptyFile EXCEPT !.header = <<player>>]
             /\ success' = 1 /\ io_error' = FALSE /\ pc' = "scan"
    <3>1. file' = [exists |-> TRUE, header |-> <<player>>, bytes |-> <<>>]
      BY <2>1 DEF EmptyFile
    <3>2. <<>> \in Seq(0 .. 2 * MAX_RUN + 1) /\ <<player>> # <<>>
      OBVIOUS
    <3>3. file' \in File
      BY <1>1, <3>1, <3>2 DEF File
    <3>4. file'.bytes = <<>> /\ file'.exists /\ file'.header = <<player>>
      BY <3>1
    <3>5. (success' = 1) = TRUE /\ (~io_error') = TRUE /\ success' \in {0, 1}
      BY <2>1
    <3> HIDE DEF SaveOpen
    <3> QED
      BY <2>1, <3>2, <3>3, <3>4, <3>5
  <2>2. CASE /\ file' = EmptyFile
             /\ success' = 0 /\ io_error' = TRUE /\ pc' = "save_close"
    <3>1. file'.bytes = <<>> /\ file'.exists /\ file'.header = <<>>
      BY <2>2 DEF EmptyFile
    <3> QED
      BY <2>2, <3>1, NoFileTypes
  <2> QED
    BY <2>1, <2>2
<1>4. 0 \in Index /\ world[0] \in Block
  BY <1>1 DEF Index, World
<1>5. TypeOK'
  <2>1. <<>> \in Seq(0 .. 2 * MAX_RUN + 1) /\ Len(<<>>) = 0
    OBVIOUS
  <2>2. card' \in File /\ pc' \in Stages
    BY NoFileTypes, <1>3 DEF Stages
  <2>3. saved' \in [world : World, player : Player]
    BY <1>1
  <2>4. buffer' \in Seq(0 .. 2 * MAX_RUN + 1) /\ Len(buffer') < SD_BUF_SIZE
    BY <2>1
  <2>5. file_ptr' \in 0..Len(file'.bytes)
    BY <1>2, <1>3, <2>1
  <2>6. /\ i' \in 0..MAP_SIZE /\ current_block' \in Block /\ run_count' \in 0..MAX_RUN
    BY <1>4
  <2>8. complete' \in BOOLEAN
    BY Zenon
  <2>7. /\ world' \in World /\ player' \in Player
        /\ sram_ptr_idx' \in 0..MAP_SIZE /\ count' \in 0..MAX_RUN
    BY DEF IInv, TypeOK
  <2> QED
    BY <1>3, <2>2, <2>3, <2>4, <2>5, <2>6, <2>7, <2>8, Zenon DEF TypeOK
<1>6. Quiet'
  BY <1>2, <1>3 DEF Quiet, Resting
<1>7. OnCard'
  <2>1. card'.header = <<>> /\ card'.bytes = <<>> /\ complete' = FALSE
    BY DEF EmptyFile
  <2> QED
    BY <2>1, EmptyOnCard DEF OnCard
<1>8. Saving'
  <2>1. Begins(file'.bytes, world')
    BY <1>3, NothingCoded
  <2>2. saved' = [world |-> world', player |-> player'] /\ ~complete'
    OBVIOUS
  <2> QED
    BY <1>3, <2>1, <2>2 DEF Saving
<1>9. Scanning'
  <2>1. i' = 1 /\ run_count' = 1 /\ world' = world /\ i' - run_count' = 0
        /\ i' - 1 = 0
    OBVIOUS
  <2>2. world'[0] = current_block'
    BY <2>1
  <2>3. file'.bytes \o buffer' = <<>>
    <3>1. <<>> \o <<>> = <<>>
      OBVIOUS
    <3> QED
      BY <1>3, <3>1
  <2>4. CodesTo(<<>>, world', 0)
    BY NothingCoded
  <2>5. CodesTo(file'.bytes \o buffer', world', i' - run_count')
    BY <2>1, <2>3, <2>4
  <2>6. run_count' \in 1..i' /\ \A k \in 0..0 : k = 0
    BY <2>1
  <2> QED
    BY <2>1, <2>2, <2>5, <2>6 DEF Scanning
<1>10. Scanned' /\ Loading' /\ LoadedWhole'
  BY <1>3 DEF Scanned, Loading, LoadedWhole
<1> QED
  BY <1>5, <1>6, <1>7, <1>8, <1>9, <1>10 DEF IInv

LEMMA ExtendRunKeeps ==
  ASSUME IInv, ExtendRun
  PROVE  IInv'
<1> USE DEF ExtendRun, gameVars, loadVars, history
<1>1. /\ i \in 0..MAP_SIZE /\ run_count \in 1..i /\ i < MAP_SIZE
      /\ i' = i + 1 /\ run_count' = run_count + 1 /\ run_count < MAX_RUN
  BY DEF IInv, TypeOK, Scanning
<1>2. TypeOK'
  <2>1. i' \in 0..MAP_SIZE /\ run_count' \in 0..MAX_RUN
    BY <1>1
  <2> QED
    BY <2>1 DEF IInv, TypeOK
<1>3. Quiet' /\ OnCard' /\ Saving' /\ Scanned' /\ Loading' /\ LoadedWhole'
  BY DEF IInv, Quiet, OnCard, Saving, Scanned, Loading, LoadedWhole, Resting
<1>4. Scanning'
  <2>1. i' - run_count' = i - run_count /\ i' - 1 = i /\ run_count' \in 1..i'
    BY <1>1
  <2>2. \A k \in i - run_count .. i : k = i \/ k \in i - run_count .. i - 1
    BY <1>1
  <2>3. \A k \in i - run_count .. i : world[k] = current_block
    BY <2>2 DEF IInv, Scanning
  <2> QED
    BY <2>1, <2>3 DEF IInv, Scanning
<1> QED
  BY <1>2, <1>3, <1>4 DEF IInv

(* The run that was counted goes out. *)
LEMMA RunPushed ==
  ASSUME IInv, pc = "scan", PushBytes(RunCode)
  PROVE  /\ file' \in File /\ file'.exists = file.exists /\ file'.header = file.header
         /\ io_error' \in BOOLEAN /\ success' \in {0, 1} /\ (success' = 1 <=> ~io_error')
         /\ buffer' \in Seq(Byte) /\ Len(buffer') < SD_BUF_SIZE
         /\ Begins(file'.bytes, world)
         /\ ~io_error' => CodesTo(file'.bytes \o buffer', world, i)
<1>1. /\ file \in File /\ io_error \in BOOLEAN /\ success \in {0, 1}
      /\ buffer \in Seq(Byte) /\ Len(buffer) < SD_BUF_SIZE
      /\ success = 1 <=> ~io_error
      /\ Begins(file.bytes, world)
      /\ current_block \in Block /\ run_count \in 1..MAX_RUN
      /\ i \in 0..MAP_SIZE /\ run_count \in 1..i
      /\ \A k \in i - run_count .. i - 1 : world[k] = current_block
      /\ ~io_error => CodesTo(file.bytes \o buffer, world, i - run_count)
  BY DEF IInv, TypeOK, Saving, Scanning, Byte
<1> DEFINE n == i - run_count
           bytes == file.bytes \o buffer
<1>2. n \in 0..MAP_SIZE /\ n + run_count = i /\ n + run_count <= MAP_SIZE
  BY <1>1
<1>3. bytes \in Seq(Byte)
  BY <1>1, Joined DEF File, Byte
<1>4. RunCode \in Seq(Byte) /\ Len(RunCode) <= 2
  BY <1>1, RunCodeCodes
<1>5. ~io_error => CodesTo(bytes \o RunCode, world, i)
  <2> SUFFICES ASSUME ~io_error PROVE CodesTo(bytes \o RunCode, world, i)
    OBVIOUS
  <2>1. \A k \in n .. n + run_count - 1 : world[k] = current_block
    BY <1>1, <1>2
  <2>2. CodesTo(bytes, world, n)
    BY <1>1
  <2> HIDE DEF n, bytes
  <2>3. CodesTo(bytes \o RunCode, world, n + run_count)
    BY <1>1, <1>2, <1>3, <2>1, <2>2, RunCodeCodes
  <2> QED
    BY <1>2, <2>3
<1> QED
  BY <1>1, <1>4, <1>5, Pushed

LEMMA EndRunKeeps ==
  ASSUME IInv, EndRun
  PROVE  IInv'
<1> USE DEF EndRun, gameVars, loadVars, history
<1>1. /\ file' \in File /\ file'.exists = file.exists /\ file'.header = file.header
      /\ io_error' \in BOOLEAN /\ success' \in {0, 1} /\ (success' = 1 <=> ~io_error')
      /\ buffer' \in Seq(0 .. 2 * MAX_RUN + 1) /\ Len(buffer') < SD_BUF_SIZE
      /\ Begins(file'.bytes, world)
      /\ ~io_error' => CodesTo(file'.bytes \o buffer', world, i)
  BY RunPushed DEF Byte
<1>2. /\ i \in 0..MAP_SIZE /\ i < MAP_SIZE /\ i' = i + 1 /\ run_count \in 1..i
      /\ world \in World /\ file_ptr' = 0
      /\ (success' = 1 => success = 1)
  <2>1. success' = 1 => success = 1
    BY DEF IInv, TypeOK, PushBytes, Write
  <2> QED
    BY <2>1 DEF IInv, TypeOK, Scanning, Quiet
<1>3. TypeOK'
  <2>1. i' \in 0..MAP_SIZE /\ run_count' \in 0..MAX_RUN
    BY <1>2
  <2>2. world[i] \in Block
    BY <1>2 DEF World, Index
  <2>3. file_ptr' \in 0..Len(file'.bytes)
    BY <1>1, <1>2, LenProperties DEF File
  <2> QED
    BY <1>1, <2>1, <2>2, <2>3 DEF IInv, TypeOK
<1>4. Quiet'
  BY <1>2 DEF Quiet, Resting
<1>5. OnCard'
  BY DEF IInv, OnCard
<1>6. Saving'
  BY <1>1, <1>2 DEF IInv, Saving
<1>7. Scanning'
  <2>1. i' - run_count' = i /\ i' - 1 = i /\ run_count' \in 1..i' /\ \A k \in i..i : k = i
    BY <1>2
  <2>2. world'[i] = current_block'
    OBVIOUS
  <2> QED
    BY <1>1, <2>1, <2>2 DEF Scanning
<1>8. Scanned' /\ Loading' /\ LoadedWhole'
  BY DEF Scanned, Loading, LoadedWhole
<1> QED
  BY <1>3, <1>4, <1>5, <1>6, <1>7, <1>8 DEF IInv

LEMMA LastRunKeeps ==
  ASSUME IInv, LastRun
  PROVE  IInv'
<1> USE DEF LastRun, gameVars, saveVars, loadVars, history
<1>1. /\ file' \in File /\ file'.exists = file.exists /\ file'.header = file.header
      /\ io_error' \in BOOLEAN /\ success' \in {0, 1} /\ (success' = 1 <=> ~io_error')
      /\ buffer' \in Seq(0 .. 2 * MAX_RUN + 1) /\ Len(buffer') < SD_BUF_SIZE
      /\ Begins(file'.bytes, world)
      /\ ~io_error' => CodesTo(file'.bytes \o buffer', world, i)
  BY RunPushed DEF Byte
<1>2. /\ i = MAP_SIZE /\ file_ptr' = 0
      /\ (success' = 1 => success = 1)
  <2>1. success' = 1 => success = 1
    BY DEF IInv, TypeOK, PushBytes, Write
  <2> QED
    BY <2>1 DEF IInv, Quiet
<1>3. TypeOK'
  <2>1. file_ptr' \in 0..Len(file'.bytes)
    BY <1>1, <1>2, LenProperties DEF File
  <2> QED
    BY <1>1, <2>1 DEF IInv, TypeOK, Stages
<1>4. Quiet'
  BY <1>2 DEF Quiet, Resting
<1>5. OnCard'
  BY DEF IInv, OnCard
<1>6. Saving'
  BY <1>1, <1>2 DEF IInv, Saving
<1>7. Scanning' /\ Loading' /\ LoadedWhole'
  BY DEF Scanning, Loading, LoadedWhole
<1>8. Scanned'
  BY <1>1, <1>2 DEF Scanned
<1> QED
  BY <1>3, <1>4, <1>5, <1>6, <1>7, <1>8 DEF IInv

LEMMA FlushTailKeeps ==
  ASSUME IInv, FlushTail
  PROVE  IInv'
<1> USE DEF FlushTail, gameVars, saveVars, loadVars, history
<1>1. /\ file \in File /\ io_error \in BOOLEAN /\ success \in {0, 1}
      /\ success = 1 <=> ~io_error
      /\ buffer \in Seq(Byte) /\ Begins(file.bytes, world)
      /\ file_ptr' = 0
      /\ ~io_error => CodesTo(file.bytes \o buffer, world, MAP_SIZE)
  BY DEF IInv, TypeOK, Saving, Scanned, Quiet, Byte
<1>2. /\ file' \in File /\ file'.exists = file.exists /\ file'.header = file.header
      /\ io_error' \in BOOLEAN /\ success' \in {0, 1} /\ (success' = 1 <=> ~io_error')
      /\ Begins(file'.bytes, world)
      /\ ~io_error' => CodesTo(file'.bytes, world, MAP_SIZE)
      /\ success' = 1 => success = 1
  <2>1. CASE buffer # <<>> /\ success = 1
    <3>1. Write(buffer)
      BY <2>1
    <3>2. ~io_error => Begins(file.bytes \o buffer, world)
      BY <1>1, CodesBegin
    <3> HIDE DEF FlushTail
    <3> QED
      BY <1>1, <2>1, <3>1, <3>2, Written
  <2>2. CASE buffer = <<>> \/ success # 1
    <3>1. UNCHANGED <<file, io_error, success>>
      BY <2>2
    <3>2. ~io_error => file.bytes \o buffer = file.bytes
      <4>1. ~io_error => buffer = <<>>
        BY <1>1, <2>2
      <4>2. file.bytes \in Seq(Byte)
        BY <1>1 DEF File, Byte
      <4>3. file.bytes \o <<>> = file.bytes
        BY <4>2, ConcatEmptySeq
      <4> QED
        BY <4>1, <4>3
    <3> HIDE DEF FlushTail
    <3> QED
      BY <1>1, <3>1, <3>2
  <2> QED
    BY <2>1, <2>2
<1>3. TypeOK'
  <2>1. file_ptr' \in 0..Len(file'.bytes)
    BY <1>1, <1>2, LenProperties DEF File
  <2> QED
    BY <1>2, <2>1 DEF IInv, TypeOK, Stages
<1>4. Quiet'
  BY <1>1 DEF Quiet, Resting
<1>5. OnCard'
  BY DEF IInv, OnCard
<1>6. Saving'
  BY <1>2 DEF IInv, Saving
<1>7. Scanning' /\ Loading' /\ LoadedWhole'
  BY DEF Scanning, Loading, LoadedWhole
<1>8. Scanned'
  BY <1>2 DEF Scanned
<1> QED
  BY <1>3, <1>4, <1>5, <1>6, <1>7, <1>8 DEF IInv

LEMMA SaveCloseKeeps ==
  ASSUME IInv, SaveClose
  PROVE  IInv'
<1> USE DEF SaveClose, gameVars
<1>1. card' \in File /\ complete' \in BOOLEAN
  <2>1. (success = 1) \in BOOLEAN
    BY Zenon
  <2>2. CASE card' = file /\ complete' = (success = 1)
    BY <2>1, <2>2 DEF IInv, TypeOK
  <2>3. CASE UNCHANGED <<card, complete>>
    BY <2>3 DEF IInv, TypeOK
  <2> QED
    BY <2>2, <2>3
<1>2. TypeOK'
  BY <1>1, GoneTypes DEF IInv, TypeOK, Stages, Resting
<1>3. Quiet'
  BY GoneTypes DEF Quiet, Resting
<1>4. OnCard'
  <2>1. CASE UNCHANGED <<card, complete>>
    BY <2>1 DEF IInv, OnCard
  <2>2. CASE card' = file /\ complete' = (success = 1)
    <3>1. /\ saved = [world |-> world, player |-> player] /\ file.exists
          /\ Begins(file.bytes, saved.world) /\ (success = 1 <=> ~io_error)
          /\ file.header # <<>> => file.header = <<saved.player>>
          /\ success = 1 => file.header # <<>>
          /\ ~io_error => CodesTo(file.bytes, saved.world, MAP_SIZE)
      BY DEF IInv, Saving, Scanned
    <3>2. CASE success = 1
      <4>1. PICK marks : /\ Coded(file.bytes, saved.world, marks)
                         /\ marks[Len(file.bytes) + 1] = At(MAP_SIZE)
        BY <3>1, <3>2, Zenon DEF CodesTo
      <4> QED
        BY <2>2, <3>1, <3>2, <4>1 DEF OnCard
    <3>3. CASE success # 1
      <4>1. ~complete'
        BY <2>2, <3>3
      <4>2. PICK marks : Coded(file.bytes, saved.world, marks)
        BY <3>1, Zenon DEF Begins
      <4> QED
        BY <2>2, <3>1, <4>1, <4>2 DEF OnCard
    <3> QED
      BY <3>2, <3>3
  <2> QED
    BY <2>1, <2>2
<1>5. Saving' /\ Scanning' /\ Scanned' /\ Loading' /\ LoadedWhole'
  BY DEF Saving, Scanning, Scanned, Loading, LoadedWhole
<1> QED
  BY <1>2, <1>3, <1>4, <1>5 DEF IInv

-----------------------------------------------------------------------------
(* A load *)

LEMMA LoadCannotOpenKeeps ==
  ASSUME IInv, LoadCannotOpen
  PROVE  IInv'
<1> USE DEF LoadCannotOpen, gameVars, fileVars, saveVars, loadVars, history
<1>1. TypeOK'
  BY DEF IInv, TypeOK, File, Stages, Resting
<1>2. Quiet' /\ OnCard'
  BY DEF IInv, Quiet, OnCard, Resting
<1>3. Saving' /\ Scanning' /\ Scanned' /\ Loading'
  BY DEF Saving, Scanning, Scanned, Loading
<1>4. LoadedWhole'
  BY DEF IInv, OnCard, LoadedWhole
<1> QED
  BY <1>1, <1>2, <1>3, <1>4 DEF IInv

LEMMA LoadOpenKeeps ==
  ASSUME IInv, LoadOpen
  PROVE  IInv'
<1> USE DEF LoadOpen, saveVars, history
<1>1. <<>> \in Seq(0 .. 2 * MAX_RUN + 1) /\ Len(<<>>) = 0
  OBVIOUS
<1>2. CASE /\ card.header # <<>>
           /\ player' = card.header[1] /\ file' = card
           /\ success' = 1 /\ io_error' = FALSE /\ pc' = "tag"
  <2>1. player' = saved.player /\ saved.player \in Player /\ saved.world \in World
    <3>1. card.header = <<saved.player>> /\ <<saved.player>>[1] = saved.player
      BY <1>2 DEF IInv, OnCard
    <3> QED
      BY <1>2, <3>1 DEF IInv, TypeOK
  <2>2. file' \in File /\ file_ptr' \in 0..Len(file'.bytes) /\ pc' \in Stages
    BY <1>2, LenProperties DEF IInv, TypeOK, File, Stages
  <2>3. io_error' \in BOOLEAN
    BY <1>2, Zenon
  <2>4. TypeOK'
    BY <1>1, <1>2, <2>1, <2>2, <2>3 DEF IInv, TypeOK
  <2>5. Quiet' /\ OnCard'
    BY <1>2 DEF IInv, Quiet, OnCard, Resting
  <2>6. Saving' /\ Scanning' /\ Scanned' /\ LoadedWhole'
    BY <1>2 DEF Saving, Scanning, Scanned, LoadedWhole
  <2>7. Loading'
    <3>1. PICK marks : /\ Coded(card.bytes, saved.world, marks)
                       /\ complete => marks[Len(card.bytes) + 1] = At(MAP_SIZE)
      BY DEF IInv, OnCard
    <3>2. marks[1] = At(0)
      BY <3>1 DEF Coded
    <3>3. Len(buffer') = 0 /\ file_ptr' - Len(buffer') + 1 = 1
      BY <1>1
    <3>4. marks[file_ptr' - Len(buffer') + 1]
            = [at |-> sram_ptr_idx', run |-> IF pc' = "id" THEN count' ELSE 0]
      BY <1>2, <3>2, <3>3 DEF At
    <3>5. /\ \A k \in 1..Len(buffer') : FALSE
          /\ \A k \in 0 .. sram_ptr_idx' - 1 : FALSE
      BY <3>3
    <3> QED
      BY <1>2, <2>1, <3>1, <3>3, <3>4, <3>5 DEF Loading
  <2> QED
    BY <2>4, <2>5, <2>6, <2>7 DEF IInv
<1>3. CASE /\ player' \in Player /\ file' = NoFile
           /\ success' = 0 /\ io_error' = (card.header # <<>>)
           /\ pc' = "loaded"
  <2>1. file' \in File /\ file_ptr' \in 0..Len(file'.bytes)
    BY <1>1, <1>3, NoFileTypes DEF NoFile
  <2>2. io_error' \in BOOLEAN
    BY <1>3, Zenon
  <2>3. TypeOK'
    BY <1>1, <1>3, <2>1, <2>2 DEF IInv, TypeOK, Stages, Resting
  <2>4. Quiet' /\ OnCard'
    BY <1>3 DEF IInv, Quiet, OnCard, Resting
  <2>5. Saving' /\ Scanning' /\ Scanned' /\ Loading'
    BY <1>3 DEF Saving, Scanning, Scanned, Loading
  <2>6. LoadedWhole'
    <3>1. complete => card.header # <<>>
      BY DEF IInv, OnCard
    <3>2. complete => io_error'
      BY <1>3, <3>1, Zenon
    <3> QED
      BY <1>3, <3>2 DEF LoadedWhole
  <2> QED
    BY <2>3, <2>4, <2>5, <2>6 DEF IInv
<1> QED
  BY <1>2, <1>3

(* Where a load is in the code: the mark before the next byte. *)
Place == file_ptr - Len(buffer) + 1

LEMMA WhereItIs ==
  ASSUME IInv, pc \in {"tag", "id"}
  PROVE  /\ file \in File /\ io_error \in BOOLEAN /\ buffer \in Seq(Byte)
         /\ Len(buffer) < SD_BUF_SIZE /\ file_ptr \in 0..Len(file.bytes)
         /\ Len(buffer) <= file_ptr
         /\ \A k \in 1..Len(buffer) : buffer[k] = file.bytes[file_ptr - Len(buffer) + k]
         /\ file = card /\ saved.world \in World
         /\ Place \in 1 .. Len(card.bytes) + 1 /\ Len(card.bytes) \in Nat
<1>1. /\ file \in File /\ io_error \in BOOLEAN /\ buffer \in Seq(Byte)
      /\ Len(buffer) < SD_BUF_SIZE /\ file_ptr \in 0..Len(file.bytes)
      /\ Len(buffer) <= file_ptr /\ file = card /\ saved.world \in World
      /\ \A k \in 1..Len(buffer) : buffer[k] = file.bytes[file_ptr - Len(buffer) + k]
  BY DEF IInv, TypeOK, Loading, Byte
<1>2. Len(buffer) \in Nat /\ Len(card.bytes) \in Nat
  BY <1>1, LenProperties DEF File
<1>3. Place \in 1 .. Len(card.bytes) + 1
  BY <1>1, <1>2 DEF Place
<1> QED
  BY <1>1, <1>2, <1>3

(* A byte that was fetched is the one at the place, and the load has gone on   *)
(* to the next.                                                            *)
LEMMA NextByte ==
  ASSUME IInv, pc \in {"tag", "id"}, NEW r \in Refill, Fetched(r)
  PROVE  /\ Place \in 1..Len(card.bytes) /\ Head(r.bytes) = card.bytes[Place]
         /\ Head(r.bytes) \in Byte
         /\ Place' = Place + 1 /\ Len(buffer') <= file_ptr'
         /\ buffer' \in Seq(0 .. 2 * MAX_RUN + 1) /\ Len(buffer') < SD_BUF_SIZE
         /\ file_ptr' \in 0..Len(file.bytes) /\ io_error' \in BOOLEAN
         /\ \A k \in 1..Len(buffer') :
              buffer'[k] = file.bytes[file_ptr' - Len(buffer') + k]
<1> DEFINE got == r.bytes
<1>1. /\ got \in Seq(Byte) /\ Len(got) <= SD_BUF_SIZE
      /\ r.ptr \in 0..Len(file.bytes) /\ r.err \in BOOLEAN
      /\ r.ptr - Len(got) = file_ptr - Len(buffer)
      /\ \A k \in 1..Len(got) : got[k] = file.bytes[file_ptr - Len(buffer) + k]
  BY WhereItIs, Refilled
<1>2. got # <<>> /\ buffer' = Tail(got) /\ file_ptr' = r.ptr /\ io_error' = r.err
  BY DEF Fetched
<1>3. /\ Len(got) \in Nat \ {0} /\ Head(got) = got[1] /\ got[1] \in Byte
      /\ Tail(got) \in Seq(Byte) /\ Len(Tail(got)) = Len(got) - 1
      /\ \A k \in 1 .. Len(got) - 1 : Tail(got)[k] = got[k + 1]
  <2>1. Len(got) \in Nat \ {0}
    BY <1>1, <1>2, EmptySeq, LenProperties
  <2> HIDE DEF got
  <2>2. Head(got) = got[1] /\ got[1] \in Byte
    BY <1>1, <2>1, ElementOfSeq
  <2>3. /\ Tail(got) \in Seq(Byte) /\ Len(Tail(got)) = Len(got) - 1
        /\ \A k \in 1 .. Len(got) - 1 : Tail(got)[k] = got[k + 1]
    BY <1>1, <1>2, <2>1, HeadTailProperties
  <2> QED
    BY <2>1, <2>2, <2>3
<1> HIDE DEF got
<1> DEFINE p == file_ptr - Len(buffer)
<1>4. /\ p \in Nat /\ Len(file.bytes) \in Nat /\ file = card /\ Place = p + 1
      /\ Len(buffer) \in Nat
  BY WhereItIs, LenProperties DEF Place
<1>5. /\ Len(buffer') = Len(got) - 1 /\ file_ptr' - Len(buffer') = p + 1
      /\ p + 1 <= Len(file.bytes)
  BY <1>1, <1>2, <1>3, <1>4
<1>6. Place' = Place + 1 /\ Len(buffer') <= file_ptr'
  BY <1>1, <1>2, <1>3, <1>4, <1>5 DEF Place
<1>7. ASSUME NEW k \in 1..Len(buffer')
      PROVE  buffer'[k] = file.bytes[file_ptr' - Len(buffer') + k]
  <2>1. k + 1 \in 1..Len(got) /\ k \in 1 .. Len(got) - 1 /\ p + (k + 1) = (p + 1) + k
    BY <1>3, <1>4, <1>5
  <2>2. buffer'[k] = got[k + 1]
    BY <1>2, <1>3, <2>1
  <2>3. got[k + 1] = file.bytes[p + (k + 1)]
    BY <1>1, <2>1
  <2> QED
    BY <1>5, <2>1, <2>2, <2>3
<1>8. Head(got) = card.bytes[Place]
  <2>1. 1 \in 1..Len(got)
    BY <1>3
  <2> QED
    BY <1>1, <1>3, <1>4, <2>1
<1>9. buffer' \in Seq(0 .. 2 * MAX_RUN + 1) /\ Len(buffer') < SD_BUF_SIZE
  BY <1>1, <1>2, <1>3, <1>5 DEF Byte
<1>10. /\ Place \in 1..Len(card.bytes) /\ Head(got) \in Byte
       /\ file_ptr' \in 0..Len(file.bytes) /\ io_error' \in BOOLEAN
  BY <1>1, <1>2, <1>3, <1>4, <1>5
<1> QED
  BY <1>6, <1>7, <1>8, <1>9, <1>10, Zenon DEF got

(* Whatever the card holds, the loop ends there only with an error or if the  *)
(* code is not a complete one.                                             *)
LEMMA FetchFailsKeeps ==
  ASSUME IInv, (pc = "tag" /\ sram_ptr_idx < MAP_SIZE) \/ pc = "id",
         NEW r \in Refill, FetchFails(r),
         UNCHANGED <<player, card, file, saveVars, history>>
  PROVE  IInv'
<1> USE DEF saveVars, history
<1>1. /\ pc' = "load_close" /\ success' = 0 /\ io_error' = r.err /\ r.bytes = <<>>
      /\ buffer' = <<>> /\ file_ptr' = r.ptr
      /\ UNCHANGED <<world, sram_ptr_idx, count>>
      /\ pc \in {"tag", "id"}
  BY DEF FetchFails
<1>2. /\ r.ptr \in 0..Len(file.bytes) /\ r.err \in BOOLEAN
      /\ r.err \/ file_ptr - Len(buffer) = Len(file.bytes)
  BY <1>1, WhereItIs, Refilled
<1>3. complete => r.err
  <2> SUFFICES ASSUME complete, ~r.err PROVE FALSE
    OBVIOUS
  <2>1. Place = Len(card.bytes) + 1
    BY <1>1, <1>2, WhereItIs DEF Place
  <2>2. PICK marks :
          /\ marks[Len(card.bytes) + 1] = At(MAP_SIZE)
          /\ marks[Place]
               = [at |-> sram_ptr_idx, run |-> IF pc = "id" THEN count ELSE 0]
    BY <1>1 DEF IInv, Loading, Place
  <2>3. sram_ptr_idx = MAP_SIZE /\ (IF pc = "id" THEN count ELSE 0) = 0
    BY <2>1, <2>2 DEF At
  <2>4. pc = "id" => count > 0 /\ count \in Nat
    BY <1>1 DEF IInv, Loading, TypeOK
  <2> QED
    BY <2>3, <2>4
<1>4. TypeOK'
  <2>1. <<>> \in Seq(0 .. 2 * MAX_RUN + 1) /\ Len(<<>>) = 0
    OBVIOUS
  <2> QED
    BY <1>1, <1>2, <2>1 DEF IInv, TypeOK, Stages
<1>5. Quiet' /\ OnCard'
  BY <1>1 DEF IInv, Quiet, OnCard, Resting
<1>6. Saving' /\ Scanning' /\ Scanned' /\ Loading'
  BY <1>1 DEF Saving, Scanning, Scanned, Loading
<1>7. LoadedWhole'
  BY <1>1, <1>3 DEF LoadedWhole
<1> QED
  BY <1>4, <1>5, <1>6, <1>7 DEF IInv

LEMMA Stored ==
  ASSUME world \in World, NEW wd \in World, sram_ptr_idx \in 0..MAP_SIZE,
         NEW n \in Nat, NEW b \in Block, sram_ptr_idx + n <= MAP_SIZE,
         \A k \in 0 .. sram_ptr_idx - 1 : world[k] = wd[k],
         \A k \in sram_ptr_idx .. sram_ptr_idx + n - 1 : wd[k] = b,
         StoreRun(b, n)
  PROVE  /\ world' \in World /\ sram_ptr_idx' = sram_ptr_idx + n
         /\ sram_ptr_idx' \in 0..MAP_SIZE
         /\ \A k \in 0 .. sram_ptr_idx' - 1 : world'[k] = wd[k]
<1>1. Smaller(sram_ptr_idx + n, MAP_SIZE) = sram_ptr_idx + n
  BY DEF Smaller
<1>2. /\ sram_ptr_idx' = sram_ptr_idx + n
      /\ world' = [k \in Index |-> IF k >= sram_ptr_idx /\ k < sram_ptr_idx + n
                                     THEN b ELSE world[k]]
  BY <1>1 DEF StoreRun
<1>3. world' \in World
  BY <1>2 DEF World
<1>4. ASSUME NEW k \in 0 .. sram_ptr_idx' - 1
      PROVE  world'[k] = wd[k]
  <2>1. k \in Index
    BY <1>2 DEF Index
  <2>2. world'[k] = IF k >= sram_ptr_idx /\ k < sram_ptr_idx + n THEN b ELSE world[k]
    BY <1>2, <2>1
  <2>3. CASE k >= sram_ptr_idx
    BY <1>2, <2>2, <2>3
  <2>4. CASE ~(k >= sram_ptr_idx)
    BY <1>2, <2>2, <2>4
  <2> QED
    BY <2>3, <2>4
<1> QED
  BY <1>2, <1>3, <1>4

(* The byte that was fetched takes the load from its mark to the next: a flag  *)
(* is a count, and anything else is the block the saved world has there.    *)
LEMMA ByteRead ==
  ASSUME IInv, pc \in {"tag", "id"}, NEW b \in Byte, NEW n, NEW m,
         Reads(b, saved.world, m, n),
         m = [at |-> sram_ptr_idx, run |-> IF pc = "id" THEN count ELSE 0]
  PROVE  \/ /\ pc = "tag" /\ IsFlag(b) /\ RunLength(b) \in 1..MAX_RUN
            /\ n = [at |-> sram_ptr_idx, run |-> RunLength(b)]
         \/ /\ pc = "tag" /\ ~IsFlag(b) /\ b \in Block /\ sram_ptr_idx + 1 <= MAP_SIZE
            /\ \A k \in sram_ptr_idx .. sram_ptr_idx + 1 - 1 : saved.world[k] = b
            /\ n = At(sram_ptr_idx + 1)
         \/ /\ pc = "id" /\ b \in Block /\ sram_ptr_idx + count <= MAP_SIZE
            /\ \A k \in sram_ptr_idx .. sram_ptr_idx + count - 1 : saved.world[k] = b
            /\ n = At(sram_ptr_idx + count)
<1>1. /\ sram_ptr_idx \in 0..MAP_SIZE /\ count \in 0..MAX_RUN
      /\ pc = "id" => count > 0
      /\ saved.world \in World
  BY DEF IInv, TypeOK, Loading
<1>2. /\ m.at = sram_ptr_idx
      /\ m.run = IF pc = "id" THEN count ELSE 0
  OBVIOUS
<1>3. CASE pc = "tag" /\ IsFlag(b)
  <2>1. m.run = 0
    BY <1>2, <1>3
  <2>2. RunLength(b) > 0 /\ n = [at |-> sram_ptr_idx, run |-> RunLength(b)]
    BY <1>2, <1>3, <2>1 DEF Reads
  <2>3. RunLength(b) \in 1..MAX_RUN
    BY <1>3, <2>2 DEF RunLength, Byte, IsFlag
  <2> QED
    BY <1>3, <2>2, <2>3
<1>4. CASE pc = "tag" /\ ~IsFlag(b)
  <2>1. m.run = 0
    BY <1>2, <1>4
  <2>2. /\ sram_ptr_idx < MAP_SIZE /\ saved.world[sram_ptr_idx] = b
        /\ n = At(sram_ptr_idx + 1)
    BY <1>2, <1>4, <2>1 DEF Reads
  <2>3. b \in Block
    BY <1>1, <2>2 DEF World, Index
  <2>4. \A k \in sram_ptr_idx .. sram_ptr_idx + 1 - 1 : k = sram_ptr_idx
    BY <1>1
  <2> QED
    BY <1>1, <1>4, <2>2, <2>3, <2>4
<1>5. CASE pc = "id"
  <2>1. m.run = count /\ count > 0 /\ count \in Nat
    BY <1>1, <1>2, <1>5
  <2>2. /\ sram_ptr_idx + count <= MAP_SIZE
        /\ \A k \in sram_ptr_idx .. sram_ptr_idx + count - 1 : saved.world[k] = b
        /\ n = At(sram_ptr_idx + count)
    BY <1>2, <2>1 DEF Reads
  <2>3. b \in Block
    <3>1. /\ sram_ptr_idx \in Index
          /\ sram_ptr_idx \in sram_ptr_idx .. sram_ptr_idx + count - 1
      BY <1>1, <2>1, <2>2 DEF Index
    <3>2. saved.world[sram_ptr_idx] = b
      BY <2>2, <3>1
    <3> QED
      BY <1>1, <3>1, <3>2 DEF World
  <2> QED
    BY <1>5, <2>2, <2>3
<1> QED
  BY <1>3, <1>4, <1>5

(* A byte that is fetched keeps the invariant if the load goes to the mark     *)
(* after it.                                                               *)
LEMMA FetchedKeeps ==
  ASSUME IInv, pc \in {"tag", "id"}, NEW r \in Refill, Fetched(r),
         UNCHANGED <<player, card, file, saveVars, history>>,
         world' \in World, pc' \in {"tag", "id"},
         sram_ptr_idx' \in 0..MAP_SIZE, count' \in 0..MAX_RUN,
         pc' = "id" => count' > 0,
         \A k \in 0 .. sram_ptr_idx' - 1 : world'[k] = saved.world[k],
         NEW marks, Coded(card.bytes, saved.world, marks),
         complete => marks[Len(card.bytes) + 1] = At(MAP_SIZE),
         marks[Place + 1]
           = [at |-> sram_ptr_idx', run |-> IF pc' = "id" THEN count' ELSE 0]
  PROVE  IInv'
<1> USE DEF saveVars, history
<1>1. /\ Place' = Place + 1 /\ Len(buffer') <= file_ptr'
      /\ buffer' \in Seq(0 .. 2 * MAX_RUN + 1) /\ Len(buffer') < SD_BUF_SIZE
      /\ file_ptr' \in 0..Len(file.bytes) /\ io_error' \in BOOLEAN
      /\ \A k \in 1..Len(buffer') :
           buffer'[k] = file.bytes[file_ptr' - Len(buffer') + k]
  BY NextByte
<1>2. success' = success /\ success = 1 /\ file = card /\ player = saved.player
  BY DEF Fetched, IInv, Loading
<1>3. TypeOK'
  BY <1>1, <1>2 DEF IInv, TypeOK, Stages
<1>4. Quiet' /\ OnCard'
  BY DEF IInv, Quiet, OnCard, Resting
<1>5. Saving' /\ Scanning' /\ Scanned' /\ LoadedWhole'
  BY DEF Saving, Scanning, Scanned, LoadedWhole
<1>6. Loading'
  <2>1. marks[file_ptr' - Len(buffer') + 1]
          = [at |-> sram_ptr_idx', run |-> IF pc' = "id" THEN count' ELSE 0]
    BY <1>1 DEF Place
  <2> QED
    BY <1>1, <1>2, <2>1 DEF Loading
<1> QED
  BY <1>3, <1>4, <1>5, <1>6 DEF IInv

LEMMA LoadTagKeeps ==
  ASSUME IInv, LoadTag
  PROVE  IInv'
<1>1. /\ pc = "tag" /\ pc \in {"tag", "id"} /\ sram_ptr_idx < MAP_SIZE
      /\ UNCHANGED <<player, card, file, saveVars, history>>
  BY DEF LoadTag
<1>2. PICK r \in Refill :
        \/ FetchFails(r)
        \/ /\ Fetched(r)
           /\ IF IsFlag(Head(r.bytes))
                THEN /\ count' = RunLength(Head(r.bytes))
                     /\ pc' = "id"
                     /\ UNCHANGED <<world, sram_ptr_idx>>
                ELSE /\ StoreRun(Head(r.bytes), 1)
                     /\ UNCHANGED <<pc, count>>
  BY DEF LoadTag
<1>3. CASE FetchFails(r)
  BY <1>1, <1>3, FetchFailsKeeps
<1>4. CASE Fetched(r)
  <2> DEFINE b == Head(r.bytes)
             l == Len(card.bytes)
  <2>1. PICK marks :
          /\ Coded(card.bytes, saved.world, marks)
          /\ complete => marks[l + 1] = At(MAP_SIZE)
          /\ marks[Place]
               = [at |-> sram_ptr_idx, run |-> IF pc = "id" THEN count ELSE 0]
    BY <1>1 DEF IInv, Loading, Place
  <2>2. Place \in 1..l /\ b = card.bytes[Place] /\ b \in Byte
    BY <1>1, <1>4, NextByte
  <2>3. Reads(b, saved.world, marks[Place], marks[Place + 1])
    BY <2>1, <2>2 DEF Coded
  <2>4. ~FetchFails(r)
    BY <1>4 DEF Fetched, FetchFails
  <2>5. /\ world \in World /\ saved.world \in World /\ sram_ptr_idx \in 0..MAP_SIZE
        /\ count \in 0..MAX_RUN
        /\ \A k \in 0 .. sram_ptr_idx - 1 : world[k] = saved.world[k]
    BY <1>1 DEF IInv, TypeOK, Loading
  <2> HIDE DEF b, l
  <2>6. CASE IsFlag(b)
    <3>1. /\ RunLength(b) \in 1..MAX_RUN
          /\ marks[Place + 1] = [at |-> sram_ptr_idx, run |-> RunLength(b)]
      BY <1>1, <2>1, <2>2, <2>3, <2>6, ByteRead
    <3>2. count' = RunLength(b) /\ pc' = "id" /\ UNCHANGED <<world, sram_ptr_idx>>
      BY <1>2, <2>4, <2>6 DEF b
    <3>3. count' \in 0..MAX_RUN /\ count' > 0
      BY <3>1, <3>2
    <3> QED
      BY <1>1, <1>4, <2>1, <2>5, <3>1, <3>2, <3>3, FetchedKeeps DEF l
  <2>7. CASE ~IsFlag(b)
    <3>1. /\ b \in Block /\ sram_ptr_idx + 1 <= MAP_SIZE
          /\ \A k \in sram_ptr_idx .. sram_ptr_idx + 1 - 1 : saved.world[k] = b
          /\ marks[Place + 1] = At(sram_ptr_idx + 1)
      BY <1>1, <2>1, <2>2, <2>3, <2>7, ByteRead
    <3>2. StoreRun(b, 1) /\ pc' = "tag" /\ count' = count
      BY <1>1, <1>2, <2>4, <2>7 DEF b
    <3>3. /\ world' \in World /\ sram_ptr_idx' = sram_ptr_idx + 1
          /\ sram_ptr_idx' \in 0..MAP_SIZE
          /\ \A k \in 0 .. sram_ptr_idx' - 1 : world'[k] = saved.world[k]
      BY <2>5, <3>1, <3>2, Stored
    <3>4. marks[Place + 1]
            = [at |-> sram_ptr_idx', run |-> IF pc' = "id" THEN count' ELSE 0]
      BY <3>1, <3>2, <3>3 DEF At
    <3> QED
      BY <1>1, <1>4, <2>1, <2>5, <3>2, <3>3, <3>4, FetchedKeeps DEF l
  <2> QED
    BY <2>6, <2>7
<1> QED
  BY <1>2, <1>3, <1>4

LEMMA LoadRunKeeps ==
  ASSUME IInv, LoadRun
  PROVE  IInv'
<1>1. /\ pc = "id" /\ pc \in {"tag", "id"}
      /\ UNCHANGED <<player, card, file, saveVars, history>>
  BY DEF LoadRun
<1>2. PICK r \in Refill :
        \/ FetchFails(r)
        \/ /\ Fetched(r)
           /\ StoreRun(Head(r.bytes), count)
           /\ pc' = "tag" /\ count' = count
  BY DEF LoadRun
<1>3. CASE FetchFails(r)
  BY <1>1, <1>3, FetchFailsKeeps
<1>4. CASE /\ Fetched(r)
           /\ StoreRun(Head(r.bytes), count)
           /\ pc' = "tag" /\ count' = count
  <2> DEFINE b == Head(r.bytes)
             l == Len(card.bytes)
  <2>1. PICK marks :
          /\ Coded(card.bytes, saved.world, marks)
          /\ complete => marks[l + 1] = At(MAP_SIZE)
          /\ marks[Place]
               = [at |-> sram_ptr_idx, run |-> IF pc = "id" THEN count ELSE 0]
    BY <1>1 DEF IInv, Loading, Place
  <2>2. Place \in 1..l /\ b = card.bytes[Place] /\ b \in Byte
    BY <1>1, <1>4, NextByte
  <2>3. Reads(b, saved.world, marks[Place], marks[Place + 1])
    BY <2>1, <2>2 DEF Coded
  <2>4. /\ world \in World /\ saved.world \in World /\ sram_ptr_idx \in 0..MAP_SIZE
        /\ count \in 0..MAX_RUN
        /\ \A k \in 0 .. sram_ptr_idx - 1 : world[k] = saved.world[k]
    BY <1>1 DEF IInv, TypeOK, Loading
  <2>5. StoreRun(b, count)
    BY <1>4
  <2> HIDE DEF b, l
  <2>6. /\ b \in Block /\ sram_ptr_idx + count <= MAP_SIZE
        /\ \A k \in sram_ptr_idx .. sram_ptr_idx + count - 1 : saved.world[k] = b
        /\ marks[Place + 1] = At(sram_ptr_idx + count)
    BY <1>1, <2>1, <2>2, <2>3, ByteRead
  <2>7. /\ world' \in World /\ sram_ptr_idx' = sram_ptr_idx + count
        /\ sram_ptr_idx' \in 0..MAP_SIZE
        /\ \A k \in 0 .. sram_ptr_idx' - 1 : world'[k] = saved.world[k]
    BY <2>4, <2>5, <2>6, Stored
  <2>8. marks[Place + 1]
          = [at |-> sram_ptr_idx', run |-> IF pc' = "id" THEN count' ELSE 0]
    BY <1>4, <2>6, <2>7 DEF At
  <2> QED
    BY <1>1, <1>4, <2>1, <2>4, <2>7, <2>8, FetchedKeeps DEF l
<1> QED
  BY <1>2, <1>3, <1>4

LEMMA LoadFullKeeps ==
  ASSUME IInv, LoadFull
  PROVE  IInv'
<1> USE DEF LoadFull, gameVars, fileVars, saveVars, loadVars, history
<1>1. TypeOK'
  BY DEF IInv, TypeOK, Stages
<1>2. Quiet' /\ OnCard'
  BY DEF IInv, Quiet, OnCard, Resting
<1>3. Saving' /\ Scanning' /\ Scanned' /\ Loading'
  BY DEF Saving, Scanning, Scanned, Loading
<1>4. LoadedWhole'
  <2>1. /\ world \in [0 .. MAP_SIZE - 1 -> Block] /\ saved.world \in [0 .. MAP_SIZE - 1 -> Block]
        /\ \A k \in 0 .. MAP_SIZE - 1 : world[k] = saved.world[k]
        /\ player = saved.player /\ success = 1
    BY DEF IInv, TypeOK, Loading, World, Index
  <2>2. world = saved.world
    BY <2>1
  <2> QED
    BY <2>1, <2>2 DEF LoadedWhole
<1> QED
  BY <1>1, <1>2, <1>3, <1>4 DEF IInv

LEMMA LoadCloseKeeps ==
  ASSUME IInv, LoadClose
  PROVE  IInv'
<1> USE DEF LoadClose, gameVars, history
<1>1. TypeOK'
  BY GoneTypes DEF IInv, TypeOK, Stages, Resting
<1>2. Quiet' /\ OnCard' /\ LoadedWhole'
  BY GoneTypes DEF IInv, Quiet, OnCard, LoadedWhole, Resting
<1>3. Saving' /\ Scanning' /\ Scanned' /\ Loading'
  BY DEF Saving, Scanning, Scanned, Loading
<1> QED
  BY <1>1, <1>2, <1>3 DEF IInv

-----------------------------------------------------------------------------
(* The theorems *)

(* Every reachable state satisfies the invariant.  *)
THEOREM Inductive == Spec => []IInv
<1>1. IInv /\ [Next]_vars => IInv'
  <2> SUFFICES ASSUME IInv, [Next]_vars PROVE IInv'
    OBVIOUS
  <2>1. CASE Play
    BY <2>1, PlayKeeps
  <2>2. CASE SaveCannotOpen \/ SaveOpen
    BY <2>2, SaveCannotOpenKeeps, SaveOpenKeeps
  <2>3. CASE SaveStep
    BY <2>3, ExtendRunKeeps, EndRunKeeps, LastRunKeeps, FlushTailKeeps, SaveCloseKeeps
       DEF SaveStep
  <2>4. CASE LoadCannotOpen \/ LoadOpen
    BY <2>4, LoadCannotOpenKeeps, LoadOpenKeeps
  <2>5. CASE LoadStep
    BY <2>5, LoadTagKeeps, LoadRunKeeps, LoadFullKeeps, LoadCloseKeeps DEF LoadStep
  <2>6. CASE PowerOff
    BY <2>6, PowerOffKeeps
  <2>7. CASE UNCHANGED vars
    BY <2>7, StutterKeeps
  <2> QED
    BY <2>1, <2>2, <2>3, <2>4, <2>5, <2>6, <2>7 DEF Next
<1> QED
  BY <1>1, InitIInv, PTL DEF Spec

(* The types: no index leaves the world or the file, the buffer is never full  *)
(* between two bytes, and whatever a load stores is a block.                *)
THEOREM Types == Spec => []TypeOK
<1>1. IInv => TypeOK
  BY DEF IInv
<1> QED
  BY <1>1, Inductive, PTL

(* LoadMapFromSD returns 1 only if it has restored the world and the player    *)
(* of the save that last created the file, whatever was cut short and        *)
(* whenever the power went off.                                            *)
THEOREM LoadsRestore == Spec => []LoadRestoresSave
<1>1. IInv => LoadRestoresSave
  BY DEF IInv, LoadedWhole, LoadRestoresSave
<1> QED
  BY <1>1, Inductive, PTL

(* After a SaveMapToSD that returned 1 and whose file was closed,              *)
(* LoadMapFromSD returns 0 only for an error of the card while it reads.     *)
THEOREM SavesLoad == Spec => []CompleteSaveLoads
<1>1. IInv => CompleteSaveLoads
  BY DEF IInv, LoadedWhole, CompleteSaveLoads
<1> QED
  BY <1>1, Inductive, PTL
=============================================================================
