---------------------------- MODULE WindowsProofs ----------------------------
(* The windows, for every size and interval and however long they run: a    *)
(* sliding window emits the aggregate of the last $size events, a tumbling  *)
(* one cuts the stream, a time window emits when it is due if its clock is  *)
(* its own, and emits every event once whether it is or not.                *)
EXTENDS MCCountWindows, MCTimeWindows, SequenceTheorems, TLAPS

LEMMA Division ==
    ASSUME NEW n \in Nat \ {0}, NEW a \in Nat
    PROVE  /\ a \div n \in Int /\ a % n \in 0..(n - 1)
           /\ a = n * (a \div n) + (a % n)
  OBVIOUS

\* A product that is positive is no smaller than a factor.
LEMMA Multiple ==
    ASSUME NEW n \in Nat \ {0}, NEW k \in Int, n * k > 0
    PROVE  n * k >= n
<1>1. k >= 1
  <2>1. SUFFICES ASSUME k <= 0 PROVE FALSE
    OBVIOUS
  <2> QED
    BY <2>1, SMT
<1>2. n * k = n + n * (k - 1)
  OBVIOUS
<1>3. n * (k - 1) >= 0
  BY <1>1, SMT
<1> QED
  BY <1>2, <1>3

\* The slots of two events less than $size apart differ.
LEMMA SlotsDiffer ==
    ASSUME NEW n \in Nat \ {0}, NEW a \in Nat, NEW b \in Nat,
           a < b, b < a + n
    PROVE  a % n # b % n
<1> DEFINE p == a \div n
           q == b \div n
<1>1. SUFFICES ASSUME a % n = b % n PROVE FALSE
  OBVIOUS
<1>2. /\ a = n * p + (a % n) /\ p \in Int /\ a % n \in 0..(n - 1)
      /\ b = n * q + (b % n) /\ q \in Int
  BY Division
<1> HIDE DEF p, q
<1>3. b - a = n * q - n * p
  BY <1>1, <1>2
<1>4. n * q - n * p = n * (q - p)
  BY <1>2
<1>5. n * (q - p) > 0 /\ n * (q - p) < n
  BY <1>3, <1>4
<1> QED
  BY <1>5, <1>2, Multiple

\* The slot of an event is used again $size events later.
LEMMA SlotReturns ==
    ASSUME NEW n \in Nat \ {0}, NEW a \in Nat
    PROVE  (a + n) % n = a % n
<1> DEFINE p == a \div n
           q == (a + n) \div n
           r == a % n
           s == (a + n) % n
<1>1. a + n \in Nat
  OBVIOUS
<1>2. /\ a = n * p + r /\ p \in Int /\ r \in 0..(n - 1)
      /\ a + n = n * q + s /\ q \in Int /\ s \in 0..(n - 1)
  BY <1>1, Division
<1> HIDE DEF p, q, r, s
<1>3. n * (q - p - 1) = r - s
  BY <1>2
<1>4. ~(n * (q - p - 1) > 0)
  BY <1>2, <1>3, Multiple
<1>5. n * (p + 1 - q) = s - r
  BY <1>2
<1>6. ~(n * (p + 1 - q) > 0)
  BY <1>2, <1>5, Multiple
<1>7. r = s
  BY <1>2, <1>3, <1>4, <1>5, <1>6
<1> QED
  BY <1>7 DEF r, s

\* Writing event i into its slot keeps the n - 1 events before it in theirs.
LEMMA StoreKeepsLast ==
    ASSUME NEW n \in Nat \ {0}, NEW i \in Nat, NEW b \in [0..(n - 1) -> Int],
           \A k \in 0..(i - 1) : k >= i - n => b[k % n] = k,
           NEW c, c = [b EXCEPT ![i % n] = i]
    PROVE  /\ c \in [0..(n - 1) -> Int]
           /\ \A k \in 0..i : k >= i + 1 - n => c[k % n] = k
<1>1. i % n \in 0..(n - 1)
  BY Division
<1>2. c \in [0..(n - 1) -> Int]
  BY <1>1
<1>3. c[i % n] = i
  BY <1>1
<1>4. ASSUME NEW k \in 0..(i - 1), k >= i + 1 - n PROVE c[k % n] = k
  <2>1. k \in Nat /\ k < i /\ i < k + n /\ k >= i - n
    BY <1>4
  <2>2. k % n # i % n
    BY <2>1, SlotsDiffer
  <2>3. k % n \in 0..(n - 1)
    BY <2>1, Division
  <2>4. b[k % n] = k
    BY <2>1
  <2> QED
    BY <2>2, <2>3, <2>4
<1>5. ASSUME NEW k \in 0..i, k >= i + 1 - n PROVE c[k % n] = k
  <2>1. CASE k = i
    BY <2>1, <1>3
  <2>2. CASE k # i
    <3>1. k \in 0..(i - 1)
      BY <2>2
    <3> QED
      BY <3>1, <1>4, <1>5
  <2> QED
    BY <2>1, <2>2
<1> QED
  BY <1>2, <1>5

-----------------------------------------------------------------------------
\* One window moves at a time.
LEMMA CountSteps ==
    ASSUME [CountNext]_<<sVars, tVars>>
    PROVE  (S!Next \/ UNCHANGED sVars) /\ (T!Next \/ UNCHANGED tVars)
BY DEF CountNext, S!Next, T!Next

\* Between calls the aggregate holds the last $size - 1 events and every one of
\* them is in its slot; during emit() the event that arrived is held besides.
\* The slot of the event that is to be compensated next is one of those.
RingInv ==
    /\ sArrived \in Nat /\ sIndex \in Nat
    /\ sBuffer \in [S!Slots -> Int]
    /\ \/ sCalls = <<>> /\ sIndex = sArrived
       \/ /\ sCalls = <<[event |-> sIndex, po |-> (sIndex + 1) % Size]>>
          /\ sIndex + 1 = sArrived /\ sIndex >= Size - 1
    /\ sHeld = {k \in 0..(sArrived - 1) : k >= sIndex - (Size - 1)}
    /\ sExcess = {}
    /\ \A k \in 0..(sIndex - 1) : k >= sIndex - Size => sBuffer[k % Size] = k
    /\ S!EmitsLastSize

LEMMA RingStarts == ASSUME Size >= 2, S!Init PROVE RingInv
BY CountAssumption DEF S!Init, RingInv, S!EmitsLastSize, S!Slots, S!NoEmission, S!Null

LEMMA RingTurns ==
    ASSUME Size >= 2, CountDepth = 1, RingInv, S!Next \/ UNCHANGED sVars
    PROVE  RingInv'
<1> USE CountAssumption
<1>0. /\ sArrived \in Nat /\ sIndex \in Nat /\ sBuffer \in [S!Slots -> Int]
      /\ Size \in Nat \ {0} /\ Size >= 2
      /\ sHeld = {k \in 0..(sArrived - 1) : k >= sIndex - (Size - 1)}
      /\ \A k \in 0..(sIndex - 1) : k >= sIndex - Size => sBuffer[k % Size] = k
      /\ sExcess = {}
  BY DEF RingInv
<1>1. CASE S!Fill
  <2>1. /\ sCalls = <<>> /\ sIndex = sArrived /\ sArrived < Size - 1
    BY <1>1 DEF RingInv, S!Fill, S!Full
  <2>2. /\ sArrived' = sArrived + 1 /\ sIndex' = sIndex + 1 /\ sCalls' = sCalls
        /\ sHeld' = sHeld \cup {sArrived} /\ sExcess' = sExcess
        /\ sEmission' = sEmission
        /\ sBuffer' = [sBuffer EXCEPT ![sIndex % Size] = sIndex]
    BY <1>1, <2>1 DEF S!Fill, S!Store
  <2>3. /\ sBuffer' \in [S!Slots -> Int]
        /\ \A k \in 0..sIndex : k >= sIndex + 1 - Size => sBuffer'[k % Size] = k
    BY <1>0, <2>2, StoreKeepsLast DEF S!Slots
  <2>4. \A k \in 0..(sIndex' - 1) :
           k >= sIndex' - Size => sBuffer'[k % Size] = k
    BY <1>0, <2>2, <2>3
  <2>5. sHeld' = {k \in 0..(sArrived' - 1) : k >= sIndex' - (Size - 1)}
    BY <1>0, <2>1, <2>2
  <2>6. S!EmitsLastSize'
    BY <2>1, <2>2 DEF RingInv, S!EmitsLastSize
  <2> QED
    BY <1>0, <2>1, <2>2, <2>3, <2>4, <2>5, <2>6 DEF RingInv
<1>2. CASE S!Emit
  <2>1. /\ sCalls = <<>> /\ sIndex = sArrived /\ sArrived >= Size - 1
    BY <1>2 DEF RingInv, S!Emit, S!Full
  <2>2. /\ sArrived' = sArrived + 1 /\ sIndex' = sIndex /\ sBuffer' = sBuffer
        /\ sHeld' = sHeld \cup {sArrived} /\ sExcess' = sExcess
        /\ sEmission' = [last |-> sArrived, held |-> sHeld', excess |-> sExcess]
        /\ sCalls' = <<[event |-> sIndex, po |-> (sIndex + 1) % Size]>>
    BY <1>2, <2>1 DEF S!Emit, S!OldestSlot
  <2>3. ASSUME NEW k
        PROVE  k \in sHeld' <=> k \in 0..sArrived /\ k >= sArrived - (Size - 1)
    <3>1. k \in sHeld' <=> k \in sHeld \/ k = sArrived
      BY <2>2
    <3>2. k \in sHeld <=> k \in 0..(sArrived - 1) /\ k >= sIndex - (Size - 1)
      BY <1>0
    <3>3. k \in Int => (k \in sHeld' <=> k \in 0..sArrived /\ k >= sArrived - (Size - 1))
      BY <1>0, <2>1, <3>1, <3>2
    <3>4. k \notin Int => k \notin sHeld' /\ k \notin 0..sArrived
      BY <1>0, <3>1, <3>2
    <3> QED
      BY <3>3, <3>4
  <2>4. /\ sHeld' = {k \in 0..(sArrived' - 1) : k >= sIndex' - (Size - 1)}
        /\ sHeld' = (sArrived - Size + 1)..sArrived
    <3>1. sArrived' - 1 = sArrived /\ sIndex' = sArrived
      BY <1>0, <2>1, <2>2
    <3>2. sHeld' = {k \in 0..sArrived : k >= sArrived - (Size - 1)}
      BY <2>3
    <3>3. ASSUME NEW k
          PROVE  k \in 0..sArrived /\ k >= sArrived - (Size - 1)
                 <=> k \in (sArrived - Size + 1)..sArrived
      BY <1>0, <2>1
    <3> QED
      BY <3>1, <3>2, <3>3
  <2>5. S!EmitsLastSize'
    BY <1>0, <2>2, <2>4 DEF S!EmitsLastSize
  <2> QED
    BY <1>0, <2>1, <2>2, <2>4, <2>5 DEF RingInv
<1>3. CASE S!Resume
  <2>1. /\ sCalls = <<[event |-> sIndex, po |-> (sIndex + 1) % Size]>>
        /\ sIndex + 1 = sArrived /\ sIndex >= Size - 1
    BY <1>3 DEF RingInv, S!Resume
  <2>2. PICK old \in Nat : /\ old = sIndex + 1 - Size
                           /\ old <= sIndex - 1 /\ old >= sIndex - Size
    BY <1>0, <2>1
  <2>3. (sIndex + 1) % Size = old % Size
    <3>1. sIndex + 1 = old + Size
      BY <1>0, <2>2
    <3> QED
      BY <1>0, <3>1, SlotReturns
  <2>4. sBuffer[(sIndex + 1) % Size] = old
    BY <1>0, <2>2, <2>3
  <2>5. /\ Head(sCalls).event = sIndex
        /\ Head(sCalls).po = (sIndex + 1) % Size
        /\ Tail(sCalls) = <<>>
    BY <2>1
  <2>6. /\ sArrived' = sArrived /\ sIndex' = sIndex + 1 /\ sCalls' = <<>>
        /\ sHeld' = sHeld \ {old} /\ sExcess' = sExcess \cup ({old} \ sHeld)
        /\ sEmission' = sEmission
        /\ sBuffer' = [sBuffer EXCEPT ![sIndex % Size] = sIndex]
    BY <1>3, <2>4, <2>5 DEF S!Resume, S!Store
  <2>7. /\ sBuffer' \in [S!Slots -> Int]
        /\ \A k \in 0..sIndex : k >= sIndex + 1 - Size => sBuffer'[k % Size] = k
    BY <1>0, <2>6, StoreKeepsLast DEF S!Slots
  <2>8. \A k \in 0..(sIndex' - 1) :
           k >= sIndex' - Size => sBuffer'[k % Size] = k
    <3>1. sIndex' = sIndex + 1 /\ sIndex' - 1 = sIndex
      BY <1>0, <2>6
    <3> QED
      BY <2>7, <3>1
  <2>9. old \in sHeld /\ sExcess' = {}
    BY <1>0, <2>1, <2>2, <2>6
  <2>10. sHeld' = {k \in 0..(sArrived' - 1) : k >= sIndex' - (Size - 1)}
    <3>1. ASSUME NEW k
          PROVE  k \in sHeld' <=> k \in 0..(sArrived - 1) /\ k >= sIndex + 1 - (Size - 1)
      <4>1. k \in sHeld' <=> k \in sHeld /\ k # old
        BY <2>6
      <4>2. k \in sHeld <=> k \in 0..(sArrived - 1) /\ k >= sIndex - (Size - 1)
        BY <1>0
      <4>3. ASSUME k \in Int
            PROVE  (k >= sIndex - (Size - 1) /\ k # old) <=> k >= sIndex + 1 - (Size - 1)
        BY <1>0, <2>2, <4>3
      <4>4. k \in 0..(sArrived - 1) => k \in Int
        BY <1>0
      <4> QED
        BY <4>1, <4>2, <4>3, <4>4
    <3>2. sArrived' = sArrived /\ sIndex' = sIndex + 1
      BY <2>6
    <3>3. ASSUME NEW k
          PROVE  k \in sHeld' <=> k \in 0..(sArrived' - 1) /\ k >= sIndex' - (Size - 1)
      BY <1>0, <3>1, <3>2
    <3> QED
      BY <3>3
  <2>11. S!EmitsLastSize'
    BY <2>6 DEF RingInv, S!EmitsLastSize
  <2> QED
    BY <1>0, <2>1, <2>6, <2>7, <2>8, <2>9, <2>10, <2>11 DEF RingInv
<1>4. CASE UNCHANGED sVars
  BY <1>4 DEF RingInv, S!EmitsLastSize, sVars
<1> QED
  BY <1>1, <1>2, <1>3, <1>4 DEF S!Next

\* However long it runs, a window of two events or more whose handlers leave it
\* alone emits the aggregate of the last $size events on each event: the modular
\* index of the ring never hands compensate() the wrong event.
THEOREM SlidesOverLast ==
    ASSUME Size >= 2, CountDepth = 1
    PROVE  CountSpec => []EmitsLastSize
<1>1. CountInit => RingInv
  BY RingStarts DEF CountInit
<1>2. RingInv /\ [CountNext]_<<sVars, tVars>> => RingInv'
  BY RingTurns, CountSteps
<1>3. RingInv => EmitsLastSize
  BY DEF RingInv, EmitsLastSize
<1> QED
  BY <1>1, <1>2, <1>3, PTL DEF CountSpec

-----------------------------------------------------------------------------
Piece(i) == (Size * i)..(Size * i + Size - 1)
Pieces(n) == {Piece(i) : i \in 0..(n - 1)}

\* After n emissions, outside of emit() and within the one of the nth.
Filling(n) ==
    /\ tEmitting = 0
    /\ tIndex \in 0..(Size - 1)
    /\ tArrived = Size * n + tIndex
    /\ tHeld = (Size * n)..(tArrived - 1)
    /\ tEmitted = Pieces(n)

Telling(n) ==
    /\ tEmitting = 1
    /\ tArrived = Size * n
    /\ tEmitted = Pieces(n)

CutInv == \E n \in Nat : Filling(n) \/ Telling(n)

LEMMA OnePieceMore ==
  ASSUME NEW n \in Nat
  PROVE  /\ Size * n \in Nat
         /\ n <= Size * n
         /\ Size * (n + 1) = Size * n + Size
         /\ Pieces(n + 1) = Pieces(n) \cup {Piece(n)}
<1> USE CountAssumption
<1>1. Size * n \in Nat /\ Size * (n + 1) = Size * n + Size
  OBVIOUS
<1>2. n <= Size * n
  <2>1. Size - 1 \in Nat /\ (Size - 1) * n \in Nat
    OBVIOUS
  <2>2. Size * n = (Size - 1) * n + n
    OBVIOUS
  <2> QED
    BY <2>1, <2>2
<1>3. 0..(n + 1 - 1) = 0..(n - 1) \cup {n}
  OBVIOUS
<1>4. Pieces(n + 1) = Pieces(n) \cup {Piece(n)}
  BY <1>3 DEF Pieces
<1> QED
  BY <1>1, <1>2, <1>4

LEMMA CutStarts == ASSUME T!Init PROVE CutInv
<1> USE CountAssumption
<1> SUFFICES ASSUME T!Init
             PROVE  Filling(0)
  BY DEF CutInv
<1>1. Size * 0 = 0 /\ 0..(0 - 1) = {}
  OBVIOUS
<1> QED
  BY <1>1 DEF T!Init, Filling, Pieces

LEMMA CutGoesOn ==
  ASSUME CountDepth = 1, CutInv, T!Next \/ UNCHANGED tVars
  PROVE  CutInv'
<1> USE CountAssumption
<1> SUFFICES ASSUME NEW n \in Nat, Filling(n) \/ Telling(n), T!Next \/ UNCHANGED tVars
             PROVE  CutInv'
  BY DEF CutInv
<1>0. Size * n \in Nat /\ Size * (n + 1) = Size * n + Size
  BY OnePieceMore
<1>1. CASE T!Fill
  <2>1. Filling(n)
    BY <1>1 DEF T!Fill, T!Accumulate, Telling
  <2>2. /\ tEmitting' = 0 /\ tEmitted' = Pieces(n)
        /\ tIndex' \in 0..(Size - 1)
        /\ tArrived' = Size * n + tIndex'
    BY <1>0, <1>1, <2>1 DEF T!Fill, T!Full, T!Accumulate, Filling
  <2>3. tHeld' = (Size * n)..(tArrived' - 1)
    BY <1>0, <1>1, <2>1 DEF T!Fill, T!Accumulate, Filling
  <2>4. Filling(n)'
    BY <2>2, <2>3 DEF Filling, Pieces, Piece
  <2> QED
    BY <2>4 DEF CutInv
<1>2. CASE T!Emit
  <2>1. Filling(n)
    BY <1>2 DEF T!Emit, T!Accumulate, Telling
  <2>2. tArrived + 1 = Size * (n + 1) /\ tIndex + 1 = Size
    BY <1>0, <1>2, <2>1 DEF T!Emit, T!Full, Filling
  <2>3. tHeld' = Piece(n)
    BY <1>0, <1>2, <2>1, <2>2 DEF T!Emit, T!Accumulate, Filling, Piece
  <2>4. tEmitted' = Pieces(n + 1)
    BY <1>2, <2>1, <2>3, OnePieceMore DEF T!Emit, Filling
  <2>5. tEmitting' = 1 /\ tArrived' = Size * (n + 1)
    BY <1>2, <2>1, <2>2 DEF T!Emit, T!Accumulate, Filling
  <2>6. Telling(n + 1)'
    BY <2>4, <2>5 DEF Telling, Pieces, Piece
  <2> QED
    BY <2>6 DEF CutInv
<1>3. CASE T!Close
  <2>1. Telling(n)
    BY <1>3 DEF T!Close, Filling
  <2>2. /\ tEmitting' = 0 /\ tIndex' = 0 /\ tHeld' = {}
        /\ tArrived' = Size * n /\ tEmitted' = Pieces(n)
    BY <1>3, <2>1 DEF T!Close, T!NewIndex, T!NewHeld, Telling
  <2>3. (Size * n)..(tArrived' - 1) = {} /\ tArrived' = Size * n + tIndex'
    BY <1>0, <2>2
  <2>4. Filling(n)'
    BY <2>2, <2>3 DEF Filling, Pieces, Piece
  <2> QED
    BY <2>4 DEF CutInv
<1>4. CASE UNCHANGED tVars
  BY <1>4 DEF CutInv, Filling, Telling, tVars, Pieces, Piece
<1> QED
  BY <1>1, <1>2, <1>3, <1>4 DEF T!Next

LEMMA CutMeans == ASSUME CutInv PROVE TumblingCuts
<1> USE CountAssumption
<1>0. ASSUME NEW n \in Nat, Telling(n)
      PROVE  TumblingCuts
  <2>1. tEmitting # 0
    BY <1>0 DEF Telling
  <2> QED
    BY <2>1, Zenon DEF TumblingCuts, T!CutsTheStream
<1> SUFFICES ASSUME NEW n \in Nat, Filling(n)
             PROVE  TumblingCuts
  BY <1>0, Zenon DEF CutInv
<1>1. n \in 0..tArrived /\ tIndex < Size
  <2>1. Size * n \in Nat /\ n <= Size * n
    BY OnePieceMore
  <2>2. tArrived = Size * n + tIndex
    BY DEF Filling
  <2>3. tIndex \in Nat /\ tIndex < Size
    BY DEF Filling
  <2> DEFINE whole == Size * n
  <2> HIDE DEF whole
  <2>4. whole \in Nat /\ n <= whole /\ tArrived = whole + tIndex
    BY <2>1, <2>2 DEF whole
  <2> QED
    BY <2>3, <2>4
<1>2. tEmitted = {(Size * i)..(Size * i + Size - 1) : i \in 0..(n - 1)}
  BY DEF Filling, Pieces, Piece
<1>3. tHeld = (Size * n)..(tArrived - 1)
  BY DEF Filling
<1> QED
  BY <1>1, <1>2, <1>3 DEF TumblingCuts, T!CutsTheStream

\* For every size of at least one, while handlers leave the window alone, its
\* emissions are the stream cut into pieces of $size events without overlap or
\* gap: the last event of a piece is counted before emit(), and the index and the
\* aggregate start again after it (Tumbling::enqueue).
THEOREM CutsForEver ==
  ASSUME CountDepth = 1
  PROVE  CountSpec => []TumblingCuts
<1>1. CountInit => CutInv
  BY CutStarts DEF CountInit
<1>2. CutInv /\ [CountNext]_<<sVars, tVars>> => CutInv'
  BY CutGoesOn, CountSteps
<1> QED
  BY <1>1, <1>2, CutMeans, PTL DEF CountSpec

-----------------------------------------------------------------------------
\* The types of both windows.
LEMMA RingTyped ==
    ASSUME S!TypeOK, S!Next \/ UNCHANGED sVars
    PROVE  S!TypeOK'
<1> USE CountAssumption
<1>0. /\ sArrived \in Nat /\ sArrived \in 0..CountEvents /\ sIndex \in Nat
      /\ sBuffer \in [S!Slots -> Int] /\ sHeld \in SUBSET (0..(sArrived - 1))
      /\ sExcess \in SUBSET Int
      /\ sCalls \in Seq([event : Nat, po : S!Slots])
      /\ sEmission \in [last : Int, held : SUBSET Int, excess : SUBSET Int]
  BY DEF S!TypeOK
<1>1. sIndex % Size \in S!Slots /\ (sIndex + 1) % Size \in S!Slots
  BY <1>0, Division DEF S!Slots
<1>2. 0..(sArrived - 1) \subseteq 0..sArrived
  BY <1>0
<1>3. CASE S!Fill
  <2>1. /\ sArrived < CountEvents /\ sArrived' = sArrived + 1 /\ sIndex' = sIndex + 1
        /\ sHeld' = sHeld \cup {sArrived} /\ sExcess' = sExcess
        /\ sCalls' = sCalls /\ sEmission' = sEmission
        /\ sBuffer' = [sBuffer EXCEPT ![sIndex % Size] = sArrived]
    BY <1>3 DEF S!Fill, S!Store
  <2>2. sHeld' \subseteq 0..(sArrived' - 1)
    BY <1>0, <1>2, <2>1
  <2>3. sBuffer' \in [S!Slots -> Int]
    BY <1>0, <1>1, <2>1
  <2>4. sArrived' \in 0..CountEvents /\ sIndex' \in Nat
    BY <1>0, <2>1
  <2> QED
    BY <1>0, <2>1, <2>2, <2>3, <2>4 DEF S!TypeOK, S!Slots
<1>4. CASE S!Emit
  <2>1. /\ sArrived < CountEvents /\ sArrived' = sArrived + 1 /\ sIndex' = sIndex
        /\ sHeld' = sHeld \cup {sArrived} /\ sExcess' = sExcess /\ sBuffer' = sBuffer
        /\ sCalls' = <<[event |-> sArrived, po |-> S!OldestSlot]>> \o sCalls
        /\ sEmission' = [last |-> sArrived, held |-> sHeld', excess |-> sExcess]
    BY <1>4 DEF S!Emit
  <2>2. sHeld' \subseteq 0..(sArrived' - 1)
    BY <1>0, <1>2, <2>1
  <2>3. S!OldestSlot \in S!Slots
    BY <1>0, <1>1 DEF S!OldestSlot
  <2>4. sCalls' \in Seq([event : Nat, po : S!Slots])
    <3>1. [event |-> sArrived, po |-> S!OldestSlot] \in [event : Nat, po : S!Slots]
      BY <1>0, <2>3
    <3> QED
      BY <1>0, <2>1, <3>1
  <2>5. sEmission' \in [last : Int, held : SUBSET Int, excess : SUBSET Int]
    <3>1. sHeld' \in SUBSET Int
      BY <2>2
    <3> QED
      BY <1>0, <2>1, <3>1
  <2>6. sArrived' \in 0..CountEvents
    BY <1>0, <2>1
  <2> QED
    BY <1>0, <2>1, <2>2, <2>4, <2>5, <2>6 DEF S!TypeOK, S!Slots
<1>5. CASE S!Resume
  <2> DEFINE top == Head(sCalls)
             old == sBuffer[top.po]
  <2>1. /\ sCalls # <<>> /\ sCalls' = Tail(sCalls) /\ sArrived' = sArrived
        /\ sEmission' = sEmission /\ sIndex' = sIndex + 1
        /\ sHeld' = sHeld \ {old} /\ sExcess' = sExcess \cup ({old} \ sHeld)
        /\ sBuffer' = [sBuffer EXCEPT ![sIndex % Size] = top.event]
    BY <1>5 DEF S!Resume, S!Store
  <2>2. /\ top \in [event : Nat, po : S!Slots]
        /\ sCalls' \in Seq([event : Nat, po : S!Slots])
    BY <1>0, <2>1, HeadTailProperties
  <2>3. old \in Int
    BY <1>0, <2>2
  <2>4. top.event \in Int
    BY <2>2
  <2> HIDE DEF top, old
  <2>5. sBuffer' \in [S!Slots -> Int]
    BY <1>0, <2>1, <2>4
  <2>6. sHeld' \subseteq 0..(sArrived' - 1) /\ sExcess' \subseteq Int
    BY <1>0, <2>1, <2>3
  <2>7. sArrived' \in 0..CountEvents /\ sIndex' \in Nat
    BY <1>0, <2>1
  <2>8. sEmission' \in [last : Int, held : SUBSET Int, excess : SUBSET Int]
    BY <1>0, <2>1
  <2> QED
    BY <2>2, <2>5, <2>6, <2>7, <2>8 DEF S!TypeOK, S!Slots
<1>6. CASE UNCHANGED sVars
  BY <1>6 DEF S!TypeOK, S!Slots, sVars
<1> QED
  BY <1>3, <1>4, <1>5, <1>6 DEF S!Next

\* A tumbling window whose handlers leave it alone counts no further than $size.
LEMMA CutTyped ==
    ASSUME CountDepth = 1, CutInv, T!TypeOK, T!Next \/ UNCHANGED tVars
    PROVE  T!TypeOK'
<1> USE CountAssumption
<1>0. /\ tArrived \in Nat /\ tArrived \in 0..CountEvents
      /\ tHeld \in SUBSET (0..(tArrived - 1)) /\ tEmitting \in 0..1
      /\ tEmitted \subseteq SUBSET (0..(tArrived - 1)) /\ tIndex \in 0..Size
      /\ 0..(tArrived - 1) \subseteq 0..tArrived
  BY DEF T!TypeOK
<1>1. tEmitting = 0 => tIndex \in 0..(Size - 1)
  BY DEF CutInv, Filling, Telling
<1>2. ASSUME T!Accumulate
      PROVE  /\ tArrived' \in 0..CountEvents /\ tHeld' \subseteq 0..(tArrived' - 1)
             /\ SUBSET (0..(tArrived - 1)) \subseteq SUBSET (0..(tArrived' - 1))
             /\ tIndex' \in 0..Size
             /\ tEmitting = 0
  <2>1. /\ tArrived < CountEvents /\ tEmitting < 1 /\ tArrived' = tArrived + 1
        /\ tHeld' = tHeld \cup {tArrived} /\ tIndex' = tIndex + 1
    BY <1>2 DEF T!Accumulate
  <2>2. tArrived' - 1 = tArrived
    BY <1>0, <2>1
  <2> QED
    BY <1>0, <1>1, <2>1, <2>2
<1>3. CASE T!Fill
  <2>1. tEmitting' = tEmitting /\ tEmitted' = tEmitted /\ T!Accumulate
    BY <1>3 DEF T!Fill
  <2>2. tEmitted' \subseteq SUBSET (0..(tArrived' - 1))
    BY <1>0, <1>2, <2>1
  <2> QED
    BY <1>0, <1>2, <2>1, <2>2 DEF T!TypeOK
<1>4. CASE T!Emit
  <2>1. tEmitting' = tEmitting + 1 /\ tEmitted' = tEmitted \cup {tHeld'} /\ T!Accumulate
    BY <1>4 DEF T!Emit
  <2>2. tEmitted' \subseteq SUBSET (0..(tArrived' - 1))
    BY <1>0, <1>2, <2>1
  <2> QED
    BY <1>0, <1>2, <2>1, <2>2 DEF T!TypeOK
<1>5. CASE T!Close
  BY <1>0, <1>5 DEF T!TypeOK, T!Close, T!NewIndex, T!NewHeld
<1>6. CASE UNCHANGED tVars
  BY <1>6 DEF T!TypeOK, tVars
<1> QED
  BY <1>3, <1>4, <1>5, <1>6 DEF T!Next

CountInv == CountTypeOK /\ CutInv

\* Whatever the size, the slot a window asks for is one of its ring and the count
\* of a tumbling window stays within its size, as long as handlers leave it alone.
THEOREM CountTypes ==
    ASSUME CountDepth = 1
    PROVE  CountSpec => []CountTypeOK
<1>1. CountInit => CountInv
  <2> SUFFICES ASSUME CountInit PROVE CountInv
    OBVIOUS
  <2>1. S!TypeOK
    BY CountAssumption DEF CountInit, S!Init, S!TypeOK, S!Null, S!NoEmission, S!Slots
  <2>2. T!TypeOK /\ CutInv
    BY CountAssumption, CutStarts DEF CountInit, T!Init, T!TypeOK
  <2> QED
    BY <2>1, <2>2 DEF CountInv, CountTypeOK
<1>2. CountInv /\ [CountNext]_<<sVars, tVars>> => CountInv'
  BY CountSteps, RingTyped, CutTyped, CutGoesOn DEF CountInv, CountTypeOK
<1>3. CountInv => CountTypeOK
  BY DEF CountInv
<1> QED
  BY <1>1, <1>2, <1>3, PTL DEF CountSpec

-----------------------------------------------------------------------------
Lag == IF Wall THEN Interval ELSE 0

\* The mark of a clock that serves one window is never later than the window's
\* opening plus the interval, wherever the time of day has gone; in an emission,
\* which opens the window again at the clock's time, than that time plus it.
MarkInv ==
    /\ now \in Nat /\ opened \in [Window -> Int] /\ arrived \in Nat
    /\ \/ /\ \A w \in Window : ~Made(w)
          /\ calls = <<>>
       \/ /\ at \in Nat /\ mark \in Int
          /\ \A w \in Window : Made(w)
          /\ calls = <<>> => \A w \in Window : mark <= opened[w] + Lag
          /\ calls # <<>> => mark <= at + Lag
    /\ calls \in {<<>>} \cup {<<w>> : w \in Window}

LEMMA InOneCall == \A w : w \in Range(<<w>>)
  BY DEF Range

\* A clock of its own never makes a window late: when an interval has passed since
\* it was opened, tick() emits, though the time of day may have been set back and
\* forth and the clock may have missed intervals.
THEOREM OwnClockEmits ==
    ASSUME NEW w, Window = {w}
    PROVE  Spec => []EmitsWhenDue
<1> USE MonotonicAssumption
<1>1. Init => MarkInv
  BY DEF Init, MarkInv, Made, Null
<1>2. ASSUME MarkInv, [Next]_vars PROVE MarkInv'
  <2>0. opened \in [Window -> Int] /\ now \in Nat /\ arrived \in Nat /\ Lag \in Nat
    BY <1>2 DEF MarkInv, Lag
  <2>1. CASE Time
    BY <1>2, <2>1 DEF MarkInv, Time, Made, Lag, Wall
  <2>2. CASE Construct(w)
    <3>1. /\ calls = <<>> /\ calls' = calls /\ now' = now /\ arrived' = arrived
          /\ at' = InitAt /\ mark' = InitMark
          /\ opened' = [opened EXCEPT ![w] = InitAt]
      BY <1>2, <2>2, InOneCall DEF MarkInv, Construct, Free
    <3>2. InitAt \in Nat /\ InitMark \in Int /\ InitMark <= InitAt + Lag
      BY <2>0 DEF InitAt, InitMark, Lag
    <3> QED
      BY <2>0, <3>1, <3>2 DEF MarkInv, Made, Null, Lag, Wall
  <2>3. CASE Enqueue(w)
    <3>1. /\ calls = <<>> /\ calls' = calls /\ now' = now /\ arrived' = arrived + 1
          /\ mark' = mark /\ opened' = opened /\ Made(w)
      BY <1>2, <2>3, InOneCall DEF MarkInv, Enqueue, Free
    <3>2. at \in Nat /\ mark \in Int /\ mark <= opened[w] + Lag
      BY <1>2, <3>1 DEF MarkInv
    <3>3. at' \in Nat
      BY <2>0, <2>3, <3>2 DEF Enqueue, Inc
    <3> QED
      BY <2>0, <3>1, <3>2, <3>3 DEF MarkInv, Made, Lag, Wall
  <2>4. CASE TickEmit(w)
    <3>1. /\ calls = <<>> /\ calls' = <<w>> /\ now' = now /\ arrived' = arrived
          /\ at' = at /\ opened' = opened /\ Made(w) /\ Ticks /\ mark' = TockedMark
      <4>1. w \notin Range(calls) /\ calls \in {<<>>, <<w>>}
        BY <1>2, <2>4 DEF MarkInv, TickEmit, Free
      <4>2. calls = <<>>
        BY <4>1, InOneCall
      <4>3. <<w>> \o <<>> = <<w>>
        OBVIOUS
      <4> QED
        BY <2>4, <4>2, <4>3 DEF TickEmit
    <3>2. at \in Nat /\ mark \in Int
      BY <1>2, <3>1 DEF MarkInv
    <3>3. mark' \in Int /\ mark' <= at + Lag
      BY <3>1, <3>2 DEF TockedMark, Ticks, Lag
    <3>4. calls' # <<>> /\ calls' \in {<<>>} \cup {<<v>> : v \in Window}
      BY <3>1
    <3>5. /\ \A v \in Window : Made(v)'
          /\ Lag' = Lag
      BY <3>1 DEF Made, Lag, Wall
    <3> QED
      BY <2>0, <3>1, <3>2, <3>3, <3>4, <3>5 DEF MarkInv
  <2>5. CASE Close
    <3>1. /\ calls = <<w>> /\ Head(calls) = w /\ Tail(calls) = <<>>
      <4>1. calls # <<>> /\ calls \in {<<>>} \cup {<<v>> : v \in Window}
        BY <1>2, <2>5 DEF MarkInv, Close
      <4>2. calls = <<w>>
        BY <4>1
      <4> QED
        BY <4>2
    <3>2. /\ calls' = <<>> /\ now' = now /\ arrived' = arrived
          /\ at' = at /\ mark' = mark /\ opened' = [opened EXCEPT ![w] = at]
      BY <2>5, <3>1 DEF Close
    <3>3. at \in Nat /\ mark \in Int /\ mark <= at + Lag
      BY <1>2, <3>1 DEF MarkInv
    <3> QED
      BY <2>0, <3>2, <3>3 DEF MarkInv, Made, Null, Lag, Wall
  <2>6. CASE UNCHANGED vars
    BY <1>2, <2>6 DEF MarkInv, vars, Made, Lag, Wall
  <2> QED
    BY <1>2, <2>1, <2>2, <2>3, <2>4, <2>5, <2>6 DEF Next
<1>3. MarkInv => EmitsWhenDue
  <2>1. SUFFICES ASSUME MarkInv, calls = <<>>, Made(w), Tocks(opened[w])
                 PROVE  Ticks
    BY DEF EmitsWhenDue
  <2>2. /\ at \in Nat /\ mark \in Int /\ opened[w] \in Int
        /\ mark <= opened[w] + Lag
    BY <2>1 DEF MarkInv
  <2> QED
    BY <2>1, <2>2 DEF Tocks, Ticks, Lag
<1> QED
  BY <1>1, <1>2, <1>3, PTL DEF Spec

-----------------------------------------------------------------------------
\* The types and ranges of the windows on a clock, whatever handlers call: a counting clock is never ahead of the events, and a mark moves on only
\* when the clock has reached it.
Latest == IF Wall THEN MaxNow ELSE MaxEvents

ClockInv ==
    /\ Latest \in Nat /\ Interval \in Nat /\ MaxEvents \in Nat
    /\ now \in 0..MaxNow /\ arrived \in 0..MaxEvents
    /\ at \in Null..Latest /\ mark \in Null..(Latest + Lag)
    /\ opened \in [Window -> Null..Latest]
    /\ ~Wall => at <= arrived

LEMMA ClockInvStep ==
    ASSUME ClockInv, [Next]_vars
    PROVE  ClockInv'
<1>0. /\ Latest \in Nat /\ Interval \in Nat /\ MaxEvents \in Nat /\ MaxNow \in Nat
      /\ now \in 0..MaxNow /\ arrived \in 0..MaxEvents
      /\ at \in Null..Latest /\ mark \in Null..(Latest + Lag)
      /\ opened \in [Window -> Null..Latest]
      /\ ~Wall => at <= arrived
      /\ Latest = (IF Wall THEN MaxNow ELSE MaxEvents) /\ Lag = (IF Wall THEN Interval ELSE 0)
  BY MonotonicAssumption DEF ClockInv, Latest, Lag
<1>1. ASSUME now' \in 0..MaxNow, arrived' \in 0..MaxEvents, at' \in Null..Latest,
             mark' \in Null..(Latest + Lag), opened' \in [Window -> Null..Latest],
             ~Wall => at' <= arrived'
      PROVE  ClockInv'
  BY <1>0, <1>1 DEF ClockInv, Latest, Lag, Wall, Null
<1> USE DEF Null
<1>2. CASE Time
  BY <1>0, <1>1, <1>2 DEF Time
<1>3. CASE Close
  <2>1. PICK w : opened' = [opened EXCEPT ![w] = at]
    BY <1>3 DEF Close
  <2>2. opened' \in [Window -> Null..Latest]
    BY <1>0, <2>1
  <2> QED
    BY <1>0, <1>1, <1>3, <2>2 DEF Close
<1>4. ASSUME NEW w \in Window, Construct(w) PROVE ClockInv'
  <2>1. InitAt \in 0..Latest /\ InitMark \in 0..(Latest + Lag) /\ (~Wall => InitAt = 0)
    BY <1>0 DEF InitAt, InitMark
  <2>2. opened' \in [Window -> Null..Latest]
    BY <1>0, <1>4, <2>1 DEF Construct
  <2> QED
    BY <1>0, <1>1, <1>4, <2>1, <2>2 DEF Construct
<1>5. ASSUME NEW w \in Window, Enqueue(w) PROVE ClockInv'
  <2>1. /\ arrived < MaxEvents /\ arrived' = arrived + 1
        /\ at' = (IF Wall THEN now ELSE at + 1)
        /\ UNCHANGED <<now, mark, opened>>
    BY <1>5 DEF Enqueue, Inc
  <2> QED
    BY <1>0, <1>1, <2>1
<1>6. ASSUME NEW w \in Window, TickEmit(w) PROVE ClockInv'
  <2>1. /\ at - mark >= (IF Wall THEN 0 ELSE 1)
        /\ mark' = (IF Wall THEN mark + Interval ELSE mark + 1)
        /\ UNCHANGED <<now, at, opened, arrived>>
    BY <1>6 DEF TickEmit, Ticks, TockedMark
  <2> QED
    BY <1>0, <1>1, <2>1
<1>7. CASE UNCHANGED vars
  BY <1>0, <1>1, <1>7 DEF vars
<1> QED
  BY <1>2, <1>3, <1>4, <1>5, <1>6, <1>7 DEF Next

\* What the windows hold and have emitted, and the stack of their calls.
HeldInv ==
    /\ MaxEvents \in Nat /\ arrived \in 0..MaxEvents
    /\ held \in [Window -> SUBSET (0..(arrived - 1))]
    /\ times \in [Events -> Nat]
    /\ calls \in Seq(Window)

LEMMA HeldInvStep ==
    ASSUME HeldInv, [Next]_vars
    PROVE  HeldInv'
<1>0. /\ MaxEvents \in Nat /\ arrived \in 0..MaxEvents /\ arrived \in Nat
      /\ held \in [Window -> SUBSET (0..(arrived - 1))]
      /\ times \in [Events -> Nat] /\ calls \in Seq(Window)
  BY DEF HeldInv
<1>1. ASSUME UNCHANGED <<arrived, held, times, calls>> PROVE HeldInv'
  BY <1>1 DEF HeldInv, Events
<1>2. CASE Close
  <2>1. PICK w : held' = [held EXCEPT ![w] = {}]
    BY <1>2 DEF Close, FreshHeld
  <2>2. calls # <<>> /\ calls' = Tail(calls) /\ UNCHANGED <<arrived, times>>
    BY <1>2 DEF Close
  <2>3. calls' \in Seq(Window)
    BY <1>0, <2>2, HeadTailProperties
  <2> QED
    BY <1>0, <2>1, <2>2, <2>3 DEF HeldInv, Events
<1>3. ASSUME NEW w \in Window, Enqueue(w) PROVE HeldInv'
  <2>1. /\ arrived < MaxEvents /\ arrived' = arrived + 1
        /\ held' = [held EXCEPT ![w] = @ \cup {arrived}]
        /\ UNCHANGED <<times, calls>>
    BY <1>3 DEF Enqueue
  <2>2. arrived' - 1 = arrived /\ 0..(arrived - 1) \subseteq 0..arrived
    BY <1>0, <2>1
  <2>3. held' \in [Window -> SUBSET (0..(arrived' - 1))]
    BY <1>0, <2>1, <2>2
  <2> QED
    BY <1>0, <2>1, <2>3 DEF HeldInv, Events
<1>4. ASSUME NEW w \in Window, TickEmit(w) PROVE HeldInv'
  <2>1. /\ times' = [e \in Events |-> times[e] + IF e \in held[w] THEN 1 ELSE 0]
        /\ calls' = <<w>> \o calls /\ UNCHANGED <<arrived, held>>
    BY <1>4 DEF TickEmit
  <2>2. times' \in [Events -> Nat]
    BY <1>0, <2>1
  <2>3. calls' \in Seq(Window)
    BY <1>0, <2>1
  <2> QED
    BY <1>0, <2>1, <2>2, <2>3 DEF HeldInv, Events
<1> QED
  BY <1>1, <1>2, <1>3, <1>4 DEF Next, Time, Construct, vars

TimedInv == ClockInv /\ HeldInv

\* Whatever the kind of clock, the interval and the number of windows, and with
\* handlers that call the windows: a wall clock's mark is never more than one
\* interval past the latest time of day ("Ensure we don't race the clock
\* forwards", Wall), a counting clock's never past the events it counted.
THEOREM TimeTypes == Spec => []TypeOK
<1>1. Init => TimedInv
  <2> SUFFICES ASSUME Init PROVE TimedInv
    OBVIOUS
  <2>1. ClockInv
    BY MonotonicAssumption DEF Init, ClockInv, Latest, Lag, Null, Wall
  <2>2. HeldInv
    BY MonotonicAssumption DEF Init, HeldInv, Events
  <2> QED
    BY <2>1, <2>2 DEF TimedInv
<1>2. TimedInv /\ [Next]_vars => TimedInv'
  BY ClockInvStep, HeldInvStep DEF TimedInv
<1>3. TimedInv => TypeOK
  BY DEF TimedInv, ClockInv, HeldInv, TypeOK, Latest, Lag
<1> QED
  BY <1>1, <1>2, <1>3, PTL DEF Spec

-----------------------------------------------------------------------------
(* The calls on the stack: no window is on it twice.                        *)

Distinct(cs) == \A i, j \in DOMAIN cs : cs[i] = cs[j] => i = j

Stack(W, cs) == cs \in Seq(W) /\ Distinct(cs)

LEMMA StackStarts == ASSUME NEW W PROVE Stack(W, <<>>) /\ Range(<<>>) = {}
  BY DEF Stack, Distinct, Range

LEMMA StackPushed ==
    ASSUME NEW W, NEW cs, Stack(W, cs), NEW w \in W, w \notin Range(cs)
    PROVE  Stack(W, <<w>> \o cs) /\ Range(<<w>> \o cs) = Range(cs) \cup {w}
<1> DEFINE ds == <<w>> \o cs
<1>1. cs \in Seq(W) /\ Len(cs) \in Nat /\ DOMAIN cs = 1..Len(cs)
  BY DEF Stack
<1>2. /\ ds \in Seq(W) /\ DOMAIN ds = 1..(Len(cs) + 1)
      /\ \A i \in DOMAIN ds : ds[i] = IF i = 1 THEN w ELSE cs[i - 1]
  BY <1>1
<1> HIDE DEF ds
<1>3. \A i \in DOMAIN cs : cs[i] \in Range(cs) /\ cs[i] # w
  BY DEF Range
<1>4. ASSUME NEW i \in DOMAIN ds, NEW j \in DOMAIN ds, ds[i] = ds[j]
      PROVE  i = j
  <2>1. CASE i = 1 \/ j = 1
    BY <1>1, <1>2, <1>3, <1>4, <2>1
  <2>2. CASE i # 1 /\ j # 1
    <3>1. i - 1 \in DOMAIN cs /\ j - 1 \in DOMAIN cs /\ cs[i - 1] = cs[j - 1]
      BY <1>1, <1>2, <1>4, <2>2
    <3>2. i - 1 = j - 1
      BY <3>1 DEF Stack, Distinct
    <3> QED
      BY <1>1, <1>2, <3>2
  <2> QED
    BY <2>1, <2>2
<1>5. Range(ds) = Range(cs) \cup {w}
  <2>1. ASSUME NEW x \in Range(ds) PROVE x \in Range(cs) \cup {w}
    <3>1. PICK i \in DOMAIN ds : x = ds[i]
      BY DEF Range
    <3>2. i = 1 \/ (i - 1 \in DOMAIN cs /\ x = cs[i - 1])
      BY <1>1, <1>2, <3>1
    <3> QED
      BY <1>2, <1>3, <3>1, <3>2
  <2>2. ASSUME NEW i \in DOMAIN cs PROVE cs[i] \in Range(ds)
    <3>1. i + 1 \in DOMAIN ds /\ ds[i + 1] = cs[i]
      BY <1>1, <1>2
    <3> QED
      BY <3>1 DEF Range
  <2>3. w \in Range(ds)
    <3>1. 1 \in DOMAIN ds /\ ds[1] = w
      BY <1>1, <1>2
    <3> QED
      BY <3>1 DEF Range
  <2>4. \A x \in Range(cs) : \E i \in DOMAIN cs : x = cs[i]
    BY DEF Range
  <2> QED
    BY <2>1, <2>2, <2>3, <2>4
<1> QED
  BY <1>2, <1>4, <1>5 DEF Stack, Distinct, ds

LEMMA StackPopped ==
    ASSUME NEW W, NEW cs, Stack(W, cs), cs # <<>>
    PROVE  /\ Head(cs) \in W /\ Head(cs) \in Range(cs)
           /\ Stack(W, Tail(cs)) /\ Range(Tail(cs)) = Range(cs) \ {Head(cs)}
<1> DEFINE ds == Tail(cs)
           w == Head(cs)
<1>1. /\ cs \in Seq(W) /\ Len(cs) \in Nat \ {0} /\ DOMAIN cs = 1..Len(cs)
      /\ w = cs[1] /\ w \in W
  BY DEF Stack
<1>2. /\ ds \in Seq(W) /\ DOMAIN ds = 1..(Len(cs) - 1)
      /\ \A i \in DOMAIN ds : ds[i] = cs[i + 1]
  BY <1>1, HeadTailProperties
<1> HIDE DEF ds, w
<1>3. \A i, j \in DOMAIN cs : cs[i] = cs[j] => i = j
  BY DEF Stack, Distinct
<1>4. 1 \in DOMAIN cs /\ w \in Range(cs)
  BY <1>1 DEF Range
<1>5. ASSUME NEW i \in DOMAIN ds
      PROVE  /\ i + 1 \in DOMAIN cs /\ ds[i] = cs[i + 1]
             /\ ds[i] \in Range(cs) /\ ds[i] # w
  <2>1. i + 1 \in DOMAIN cs /\ i + 1 # 1 /\ ds[i] = cs[i + 1]
    BY <1>1, <1>2
  <2> QED
    BY <1>1, <1>3, <1>4, <2>1 DEF Range
<1>6. ASSUME NEW i \in DOMAIN ds, NEW j \in DOMAIN ds, ds[i] = ds[j]
      PROVE  i = j
  <2>1. i + 1 = j + 1
    BY <1>3, <1>5, <1>6
  <2> QED
    BY <1>1, <1>2, <2>1
<1>7. ASSUME NEW x \in Range(cs), x # w
      PROVE  x \in Range(ds)
  <2>1. PICK i \in DOMAIN cs : x = cs[i]
    BY <1>7 DEF Range
  <2>2. i - 1 \in DOMAIN ds /\ ds[i - 1] = cs[i]
    BY <1>1, <1>2, <1>7, <2>1
  <2> QED
    BY <2>1, <2>2 DEF Range
<1>8. Range(ds) = Range(cs) \ {w}
  <2>1. \A x \in Range(ds) : \E i \in DOMAIN ds : x = ds[i]
    BY DEF Range
  <2> QED
    BY <1>5, <1>7, <2>1
<1> QED
  BY <1>1, <1>2, <1>4, <1>6, <1>8 DEF Stack, Distinct, ds, w

-----------------------------------------------------------------------------
\* What was enqueued waits in at most one window; the events of the windows in
\* their emissions were emitted already and will be dropped when these close.  W
\* are the windows, n bounds the events, a arrived, h are held, t counts the
\* emissions and C are the windows on the stack.
Waits(h, C, w, e) == e \in h[w] /\ w \notin C

Once(W, n, a, h, t, C) ==
    /\ a \in 0..n
    /\ h \in [W -> SUBSET (0..(a - 1))]
    /\ t \in [0..(n - 1) -> Nat]
    /\ \A v, w \in W : v # w => h[v] \cap h[w] = {}
    /\ \A e \in 0..(n - 1) : t[e] =
          IF e >= a \/ \E w \in W : Waits(h, C, w, e) THEN 0 ELSE 1

LEMMA OnceStarts ==
    ASSUME NEW W, NEW n \in Nat
    PROVE  Once(W, n, 0, [w \in W |-> {}], [e \in 0..(n - 1) |-> 0], {})
BY DEF Once

\* The aggregates after event a reached window w.
Joined(h, w, a, g) == g = [h EXCEPT ![w] = @ \cup {a}]

LEMMA OnceEnqueued ==
    ASSUME NEW W, NEW n \in Nat, NEW a, NEW h, NEW t, NEW C,
           Once(W, n, a, h, t, C), a < n, NEW w \in W, w \notin C, NEW g, Joined(h, w, a, g)
    PROVE  Once(W, n, a + 1, g, t, C)
<1>1. /\ a \in 0..n /\ h \in [W -> SUBSET (0..(a - 1))]
      /\ t \in [0..(n - 1) -> Nat]
      /\ \A u, v \in W : u # v => h[u] \cap h[v] = {}
      /\ \A e \in 0..(n - 1) : t[e] =
            IF e >= a \/ \E v \in W : Waits(h, C, v, e) THEN 0 ELSE 1
  BY DEF Once
<1>2. ASSUME NEW v \in W, NEW e
      PROVE  Waits(g, C, v, e) <=> Waits(h, C, v, e) \/ (v = w /\ e = a)
  BY <1>1 DEF Waits, Joined
<1>3. ASSUME NEW v \in W
      PROVE  g[v] \subseteq 0..(a + 1 - 1)
  <2>1. \A e \in g[v] : e \in h[v] \/ e = a
    BY <1>1 DEF Joined
  <2> QED
    BY <1>1, <2>1
<1>4. g \in [W -> SUBSET (0..(a + 1 - 1))]
  <2>1. DOMAIN g = W /\ g = [v \in W |-> g[v]]
    BY <1>1 DEF Joined
  <2> QED
    BY <1>3, <2>1
<1>5. ASSUME NEW u \in W, NEW v \in W, u # v
      PROVE  g[u] \cap g[v] = {}
  <2>1. \A x \in W : a \notin h[x]
    BY <1>1
  <2> QED
    BY <1>1, <1>5, <2>1 DEF Joined
<1>6. ASSUME NEW e \in 0..(n - 1)
      PROVE  t[e] = IF e >= a + 1 \/ \E v \in W : Waits(g, C, v, e) THEN 0 ELSE 1
  <2>1. CASE e = a
    <3>1. Waits(g, C, w, e)
      BY <1>2, <2>1
    <3>2. t[e] = 0
      BY <1>1, <2>1
    <3> QED
      BY <3>1, <3>2
  <2>2. CASE e # a
    <3>1. e >= a + 1 <=> e >= a
      BY <1>1, <2>2
    <3>2. (\E v \in W : Waits(g, C, v, e)) <=> (\E v \in W : Waits(h, C, v, e))
      BY <1>2, <2>2
    <3> QED
      BY <1>1, <3>1, <3>2
  <2> QED
    BY <2>1, <2>2
<1>7. a + 1 \in 0..n
  BY <1>1
<1>8. t \in [0..(n - 1) -> Nat]
  BY <1>1
<1> QED
  BY <1>4, <1>5, <1>6, <1>7, <1>8 DEF Once

LEMMA OnceEmitted ==
    ASSUME NEW W, NEW n \in Nat, NEW a, NEW h, NEW t, NEW C,
           Once(W, n, a, h, t, C), NEW w \in W, w \notin C,
           NEW u, u = [e \in 0..(n - 1) |-> t[e] + IF e \in h[w] THEN 1 ELSE 0]
    PROVE  Once(W, n, a, h, u, C \cup {w})
<1>1. /\ a \in 0..n /\ h \in [W -> SUBSET (0..(a - 1))]
      /\ t \in [0..(n - 1) -> Nat]
      /\ \A x, v \in W : x # v => h[x] \cap h[v] = {}
      /\ \A e \in 0..(n - 1) : t[e] =
            IF e >= a \/ \E v \in W : Waits(h, C, v, e) THEN 0 ELSE 1
  BY DEF Once
<1>2. u \in [0..(n - 1) -> Nat]
  BY <1>1
<1>3. ASSUME NEW v \in W, NEW e
      PROVE  Waits(h, C \cup {w}, v, e) <=> Waits(h, C, v, e) /\ v # w
  BY DEF Waits
<1>4. ASSUME NEW e \in 0..(n - 1)
      PROVE  u[e] = IF e >= a \/ \E v \in W : Waits(h, C \cup {w}, v, e) THEN 0 ELSE 1
  <2>1. t[e] = IF e >= a \/ \E v \in W : Waits(h, C, v, e) THEN 0 ELSE 1
    BY <1>1
  <2>2. CASE e \in h[w]
    <3>1. ~(e >= a)
      BY <1>1, <2>2
    <3>2. \A v \in W : ~Waits(h, C \cup {w}, v, e)
      BY <1>1, <1>3, <2>2 DEF Waits
    <3>3. u[e] = 1
      <4>1. Waits(h, C, w, e)
        BY <2>2 DEF Waits
      <4> QED
        BY <2>1, <2>2, <4>1
    <3> QED
      BY <3>1, <3>2, <3>3
  <2>3. CASE e \notin h[w]
    <3>1. (\E v \in W : Waits(h, C \cup {w}, v, e)) <=> (\E v \in W : Waits(h, C, v, e))
      BY <1>3, <2>3 DEF Waits
    <3>2. u[e] = t[e]
      BY <1>1, <2>3
    <3> QED
      BY <2>1, <3>1, <3>2
  <2> QED
    BY <2>2, <2>3
<1> QED
  BY <1>1, <1>2, <1>4 DEF Once

LEMMA OnceClosed ==
    ASSUME NEW W, NEW n \in Nat, NEW a, NEW h, NEW t, NEW C, NEW w \in C,
           w \in W, Once(W, n, a, h, t, C),
           NEW g, g = [h EXCEPT ![w] = {}]
    PROVE  Once(W, n, a, g, t, C \ {w})
<1>1. /\ a \in 0..n /\ h \in [W -> SUBSET (0..(a - 1))]
      /\ t \in [0..(n - 1) -> Nat]
      /\ \A u, v \in W : u # v => h[u] \cap h[v] = {}
      /\ \A e \in 0..(n - 1) : t[e] =
            IF e >= a \/ \E v \in W : Waits(h, C, v, e) THEN 0 ELSE 1
  BY DEF Once
<1>2. ASSUME NEW v \in W, NEW e
      PROVE  Waits(g, C \ {w}, v, e) <=> Waits(h, C, v, e)
  BY <1>1 DEF Waits
<1>3. \A e \in 0..(n - 1) :
         t[e] = IF e >= a \/ \E v \in W : Waits(g, C \ {w}, v, e) THEN 0 ELSE 1
  BY <1>1, <1>2
<1>4. /\ g \in [W -> SUBSET (0..(a - 1))]
      /\ \A u, v \in W : u # v => g[u] \cap g[v] = {}
  BY <1>1
<1> QED
  BY <1>1, <1>3, <1>4 DEF Once

\* What Once says of an event between calls.
Told(W, h, t, e) == t[e] = IF \E w \in W : e \in h[w] THEN 0 ELSE 1

LEMMA OnceMeans ==
    ASSUME NEW W, NEW n \in Nat, NEW a, NEW h, NEW t, Once(W, n, a, h, t, {}),
           NEW e \in 0..(a - 1)
    PROVE  Told(W, h, t, e)
<1>1. e \in 0..(n - 1) /\ ~(e >= a)
  BY DEF Once
<1>2. \A w \in W : Waits(h, {}, w, e) <=> e \in h[w]
  BY DEF Waits
<1> QED
  BY <1>1, <1>2 DEF Once, Told

OnceInv ==
    /\ Stack(Window, calls)
    /\ Once(Window, MaxEvents, arrived, held, times, Range(calls))

LEMMA OnceStep ==
    ASSUME OnceInv, [Next]_vars
    PROVE  OnceInv'
<1> USE MonotonicAssumption
<1>0. /\ Stack(Window, calls)
      /\ Once(Window, MaxEvents, arrived, held, times, Range(calls))
  BY DEF OnceInv
<1>1. ASSUME UNCHANGED <<arrived, held, times, calls>> PROVE OnceInv'
  BY <1>1 DEF OnceInv, Range
<1>2. ASSUME NEW w \in Window, Enqueue(w) PROVE OnceInv'
  <2>1. /\ w \notin Range(calls) /\ calls' = calls /\ times' = times
        /\ arrived' = arrived + 1 /\ arrived < MaxEvents
        /\ held' = [held EXCEPT ![w] = @ \cup {arrived}]
    BY <1>2 DEF Enqueue, Free
  <2>2. Once(Window, MaxEvents, arrived + 1, held', times, Range(calls))
    BY <1>0, <2>1, OnceEnqueued DEF Joined
  <2> QED
    BY <1>0, <2>1, <2>2 DEF OnceInv
<1>3. ASSUME NEW w \in Window, TickEmit(w) PROVE OnceInv'
  <2>1. /\ w \notin Range(calls) /\ calls' = <<w>> \o calls
        /\ arrived' = arrived /\ held' = held
        /\ times' = [e \in 0..(MaxEvents - 1) |-> times[e] + IF e \in held[w] THEN 1 ELSE 0]
    BY <1>3 DEF TickEmit, Free, Events
  <2>2. Stack(Window, calls') /\ Range(calls') = Range(calls) \cup {w}
    BY <1>0, <2>1, StackPushed
  <2>3. Once(Window, MaxEvents, arrived, held, times', Range(calls) \cup {w})
    BY <1>0, <2>1, OnceEmitted
  <2> QED
    BY <2>1, <2>2, <2>3 DEF OnceInv
<1>4. CASE Close
  <2> DEFINE w == Head(calls)
  <2>1. /\ calls # <<>> /\ calls' = Tail(calls)
        /\ arrived' = arrived /\ times' = times
        /\ held' = [held EXCEPT ![w] = {}]
    BY <1>4 DEF Close, FreshHeld
  <2>2. /\ w \in Window /\ w \in Range(calls)
        /\ Stack(Window, calls') /\ Range(calls') = Range(calls) \ {w}
    BY <1>0, <2>1, StackPopped
  <2> HIDE DEF w
  <2>3. Once(Window, MaxEvents, arrived, held', times, Range(calls) \ {w})
    BY <1>0, <2>1, <2>2, OnceClosed
  <2> QED
    BY <2>1, <2>2, <2>3 DEF OnceInv
<1> QED
  BY <1>1, <1>2, <1>3, <1>4 DEF Next, Time, Construct, vars

LEMMA OnceTells ==
    ASSUME OnceInv
    PROVE  EmittedOnce
<1> SUFFICES ASSUME calls = <<>>
             PROVE  \A e \in 0..(arrived - 1) :
                       times[e] = IF \E w \in Window : e \in held[w] THEN 0 ELSE 1
  BY DEF EmittedOnce
<1>1. MaxEvents \in Nat /\ Once(Window, MaxEvents, arrived, held, times, {})
  BY StackStarts, MonotonicAssumption DEF OnceInv
<1>2. ASSUME NEW e \in 0..(arrived - 1) PROVE Told(Window, held, times, e)
  BY <1>1, OnceMeans
<1> QED
  BY <1>2 DEF Told

-----------------------------------------------------------------------------
PairInv ==
    /\ Stack(Pair, pCalls)
    /\ Once(Pair, PairEvents, pArrived, pHeld, pTimes, Range(pCalls))

LEMMA PairRange == \A f : P!Range(f) = Range(f)
  BY DEF P!Range, Range

LEMMA PairStep ==
    ASSUME PairEvents \in Nat, PairInv, [TimeNext]_<<vars, pairVars>>
    PROVE  PairInv'
<1>0. /\ Stack(Pair, pCalls)
      /\ Once(Pair, PairEvents, pArrived, pHeld, pTimes, Range(pCalls))
  BY DEF PairInv
<1>1. ASSUME UNCHANGED <<pArrived, pHeld, pTimes, pCalls>> PROVE PairInv'
  BY <1>1 DEF PairInv, Range
<1>2. ASSUME NEW w \in Pair, P!Enqueue(w) PROVE PairInv'
  <2>1. /\ w \notin Range(pCalls) /\ pCalls' = pCalls /\ pTimes' = pTimes
        /\ pArrived' = pArrived + 1 /\ pArrived < PairEvents
        /\ pHeld' = [pHeld EXCEPT ![w] = @ \cup {pArrived}]
    BY <1>2, PairRange DEF P!Enqueue, P!Free
  <2>2. Once(Pair, PairEvents, pArrived + 1, pHeld', pTimes, Range(pCalls))
    BY <1>0, <2>1, OnceEnqueued DEF Joined
  <2> QED
    BY <1>0, <2>1, <2>2 DEF PairInv
<1>3. ASSUME NEW w \in Pair, P!TickEmit(w) PROVE PairInv'
  <2>1. /\ w \notin Range(pCalls) /\ pCalls' = <<w>> \o pCalls
        /\ pArrived' = pArrived /\ pHeld' = pHeld
        /\ pTimes' = [e \in 0..(PairEvents - 1) |-> pTimes[e] + IF e \in pHeld[w] THEN 1 ELSE 0]
    BY <1>3, PairRange DEF P!TickEmit, P!Free, P!Events
  <2>2. Stack(Pair, pCalls') /\ Range(pCalls') = Range(pCalls) \cup {w}
    BY <1>0, <2>1, StackPushed
  <2>3. Once(Pair, PairEvents, pArrived, pHeld, pTimes', Range(pCalls) \cup {w})
    BY <1>0, <2>1, OnceEmitted
  <2> QED
    BY <2>1, <2>2, <2>3 DEF PairInv
<1>4. CASE P!Close
  <2> DEFINE w == Head(pCalls)
  <2>1. /\ pCalls # <<>> /\ pCalls' = Tail(pCalls)
        /\ pArrived' = pArrived /\ pTimes' = pTimes
        /\ pHeld' = [pHeld EXCEPT ![w] = {}]
    BY <1>4 DEF P!Close, P!FreshHeld
  <2>2. /\ w \in Pair /\ w \in Range(pCalls)
        /\ Stack(Pair, pCalls') /\ Range(pCalls') = Range(pCalls) \ {w}
    BY <1>0, <2>1, StackPopped
  <2> HIDE DEF w
  <2>3. Once(Pair, PairEvents, pArrived, pHeld', pTimes, Range(pCalls) \ {w})
    BY <1>0, <2>1, <2>2, OnceClosed
  <2> QED
    BY <2>1, <2>2, <2>3 DEF PairInv
<1>5. ASSUME UNCHANGED pairVars PROVE PairInv'
  BY <1>1, <1>5 DEF pairVars
<1>6. ASSUME NEW w \in Pair, P!Construct(w) PROVE PairInv'
  BY <1>1, <1>6 DEF P!Construct
<1> QED
  BY <1>2, <1>3, <1>4, <1>5, <1>6 DEF TimeNext

LEMMA PairTells ==
    ASSUME PairEvents \in Nat, PairInv
    PROVE  P!EmittedOnce
<1> SUFFICES ASSUME pCalls = <<>>
             PROVE  \A e \in 0..(pArrived - 1) :
                       pTimes[e] = IF \E w \in Pair : e \in pHeld[w] THEN 0 ELSE 1
  BY DEF P!EmittedOnce
<1>1. PairEvents \in Nat /\ Once(Pair, PairEvents, pArrived, pHeld, pTimes, {})
  BY StackStarts DEF PairInv
<1>2. ASSUME NEW e \in 0..(pArrived - 1) PROVE Told(Pair, pHeld, pTimes, e)
  BY <1>1, OnceMeans
<1> QED
  BY <1>2 DEF Told

-----------------------------------------------------------------------------
\* Windows that share a clock or not, closed early, late or never, and handlers
\* that make other windows take events, emit and close between a window's emission
\* and its closing: no event is lost and none is emitted twice.
THEOREM EventsOnce ==
    ASSUME PairEvents \in Nat
    PROVE  TimeSpec => []AllEmittedOnce
<1>1. TimeInit => OnceInv /\ PairInv
  <2>1. TimeInit => OnceInv
    BY MonotonicAssumption, OnceStarts, StackStarts
       DEF TimeInit, Init, OnceInv, Events
  <2>2. TimeInit => PairInv
    BY OnceStarts, StackStarts DEF TimeInit, P!Init, P!Events, PairInv
  <2> QED
    BY <2>1, <2>2
<1>2. OnceInv /\ PairInv /\ [TimeNext]_<<vars, pairVars>> => OnceInv' /\ PairInv'
  <2>1. [TimeNext]_<<vars, pairVars>> => [Next]_vars
    BY DEF TimeNext, Next
  <2> QED
    BY <2>1, OnceStep, PairStep
<1>3. OnceInv /\ PairInv => AllEmittedOnce
  BY OnceTells, PairTells DEF AllEmittedOnce
<1> QED
  BY <1>1, <1>2, <1>3, PTL DEF TimeSpec

-----------------------------------------------------------------------------
\* The mark of the counting clock moves only to where the clock has been, and where
\* it has caught up a window has opened at this count or is about to.
SharedInv ==
    /\ pAt \in Nat \cup {-1} /\ pMark \in Int
    /\ pMark <= pAt
    /\ pOpened \in [Pair -> Nat \cup {-1}]
    /\ pCalls \in Seq(Pair)
    /\ pMark = pAt /\ pCalls = <<>> /\ pAt # -1
           => \E u \in Pair : pOpened[u] = pAt

LEMMA SharedStep ==
    ASSUME SharedInv, [TimeNext]_<<vars, pairVars>>
    PROVE  SharedInv'
<1>1. ASSUME NEW w \in Pair, P!Construct(w) PROVE SharedInv'
  BY <1>1 DEF SharedInv, P!Construct, P!InitAt, P!InitMark, P!Wall
<1>2. ASSUME NEW w \in Pair, P!Enqueue(w) PROVE SharedInv'
  BY <1>2 DEF SharedInv, P!Enqueue, P!Inc, P!Wall
<1>3. ASSUME NEW w \in Pair, P!TickEmit(w) PROVE SharedInv'
  BY <1>3 DEF SharedInv, P!TickEmit, P!Ticks, P!TockedMark, P!Wall
<1>4. CASE P!Close
  BY <1>4 DEF SharedInv, P!Close
<1>5. ASSUME UNCHANGED pairVars PROVE SharedInv'
  BY <1>5 DEF SharedInv, pairVars
<1> QED
  BY <1>1, <1>2, <1>3, <1>4, <1>5 DEF TimeNext

LEMMA SharedTells == ASSUME SharedInv PROVE P!LateBehindAnother
<1> SUFFICES ASSUME pCalls = <<>>, NEW w \in Pair, P!Made(w),
                    P!Tocks(pOpened[w]), ~P!Ticks
             PROVE  \E u \in Pair \ {w} : pOpened[u] = pAt
  BY DEF P!LateBehindAnother
<1>1. /\ pOpened[w] \in Nat /\ pAt \in Nat \cup {-1} /\ pMark \in Int
      /\ pMark <= pAt /\ pAt - pOpened[w] >= 1 /\ ~(pAt - pMark >= 1)
  BY DEF SharedInv, P!Made, P!Null, P!Tocks, P!Ticks, P!Wall
<1>2. pMark = pAt /\ pAt # -1 /\ pAt # pOpened[w]
  BY <1>1
<1>3. PICK u \in Pair : pOpened[u] = pAt
  BY <1>2 DEF SharedInv
<1> QED
  BY <1>2, <1>3

\* However many windows share a counting clock, start it again and tick it, the
\* one that is turned away when its turn has come has another to blame, which
\* opened at this very count.
THEOREM LateBehindOther == TimeSpec => []SharedLateBehindAnother
<1>1. TimeInit => SharedInv
  BY DEF TimeInit, P!Init, P!Null, SharedInv
<1>2. SharedInv /\ [TimeNext]_<<vars, pairVars>> => SharedInv'
  BY SharedStep
<1>3. SharedInv => SharedLateBehindAnother
  BY SharedTells DEF SharedLateBehindAnother
<1> QED
  BY <1>1, <1>2, <1>3, PTL DEF TimeSpec
=============================================================================
