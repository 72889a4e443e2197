--------------------------- MODULE CodeCopyProofs ---------------------------
(***************************************************************************)
(* Proofs about the making of a trampoline, for any function, any          *)
(* allocations and any sizes: what the search for memory near the function *)
(* finds can be used, what it misses, when what it finds is out of reach,  *)
(* and that copied instructions and the jump behind them fit in rbCode.    *)
(***************************************************************************)
EXTENDS CodeCopy, NatSetInduction

----------------------------------------------------------------------------
(* Multiples of RegionSize.                                                *)

Aligned(a) == a \in Int /\ a % RegionSize = 0

LEMMA Sizes ==
    /\ GB \in Nat /\ Slack \in Nat /\ RegionSize \in Nat
    /\ SystemLo \in Nat /\ SystemHi \in Nat /\ SystemStep \in Nat
    /\ GB > Slack /\ Slack > RegionSize /\ RegionSize > 0 /\ RegionSize >= 4 * 96
    /\ Aligned(GB) /\ Aligned(Slack) /\ Aligned(SystemLo) /\ Aligned(SystemHi) /\ Aligned(SystemStep)
  BY SearchAssumption, RegionHolds DEF Aligned

LEMMA Size == RegionSize \in Nat /\ RegionSize > 0
  BY Sizes

LEMMA Division ==
    ASSUME NEW a \in Int
    PROVE  /\ a % RegionSize \in 0..(RegionSize - 1) /\ a \div RegionSize \in Int
           /\ a = RegionSize * (a \div RegionSize) + (a % RegionSize)
  BY Size

LEMMA Multiple ==
    ASSUME NEW k \in Int
    PROVE  Aligned(k * RegionSize)
  <1>1. k * RegionSize \in Int
    BY Size
  <1> DEFINE q == (k * RegionSize) \div RegionSize
             r == (k * RegionSize) % RegionSize
  <1>2. q \in Int /\ r \in 0..(RegionSize - 1) /\ k * RegionSize = RegionSize * q + r
    BY <1>1, Division
  <1> HIDE DEF q
  <1>3. RegionSize * (k - q) = r
    BY <1>2, Size
  <1>4. k - q = 0
    <2>1. CASE k - q >= 1
      <3>1. RegionSize * (k - q) >= RegionSize
        BY <1>2, <2>1, Size
      <3>. QED
        BY <1>2, <1>3, <3>1, Size
    <2>2. CASE k - q <= -1
      <3>1. RegionSize * (k - q) <= -RegionSize
        BY <1>2, <2>2, Size
      <3>. QED
        BY <1>2, <1>3, <3>1, Size
    <2>. QED
      BY <1>2, <2>1, <2>2
  <1>. QED
    BY <1>1, <1>3, <1>4, Size DEF Aligned

LEMMA AlignedIs ==
    ASSUME NEW a \in Int
    PROVE  Aligned(a) <=> \E k \in Int : a = k * RegionSize
  <1>1. ASSUME Aligned(a) PROVE \E k \in Int : a = k * RegionSize
    <2>1. a = RegionSize * (a \div RegionSize) /\ a \div RegionSize \in Int
      <3>1. /\ a \div RegionSize \in Int /\ a % RegionSize = 0
            /\ a = RegionSize * (a \div RegionSize) + (a % RegionSize)
        BY <1>1, Division DEF Aligned
      <3>2. RegionSize * (a \div RegionSize) \in Int
        BY <3>1, Size
      <3>. QED
        BY <3>1, <3>2
    <2>. QED
      BY <2>1, Size
  <1>. QED
    BY <1>1, Multiple

LEMMA AlignedSum ==
    ASSUME NEW a, NEW b, Aligned(a), Aligned(b)
    PROVE  Aligned(a + b) /\ Aligned(a - b)
  <1>1. PICK j \in Int, k \in Int : a = j * RegionSize /\ b = k * RegionSize
    BY AlignedIs DEF Aligned
  <1>2. a + b = (j + k) * RegionSize /\ a - b = (j - k) * RegionSize
    BY <1>1, Size
  <1>. QED
    BY <1>1, <1>2, Multiple

LEMMA AlignedSizes ==
    Aligned(RegionSize) /\ Aligned(2 * GB) /\ Aligned(2 * GB - Slack)
  <1>1. RegionSize = 1 * RegionSize /\ 2 * GB = GB + GB
    BY Sizes
  <1>2. Aligned(RegionSize)
    BY <1>1, Multiple
  <1>3. Aligned(GB + GB)
    BY AlignedSum, Sizes
  <1>4. Aligned(2 * GB)
    BY <1>1, <1>3
  <1>5. Aligned(2 * GB - Slack)
    BY <1>4, AlignedSum, Sizes
  <1>. QED
    BY <1>2, <1>4, <1>5

\* There is room for a region between two multiples.
LEMMA AlignedGap ==
    ASSUME NEW a, NEW b, Aligned(a), Aligned(b), a < b
    PROVE  a + RegionSize <= b
  <1>1. PICK j \in Int, k \in Int : a = j * RegionSize /\ b = k * RegionSize
    BY AlignedIs DEF Aligned
  <1>2. j < k
    BY <1>1, Size
  <1>3. k - j - 1 \in Nat
    BY <1>2
  <1>4. (k - j - 1) * RegionSize >= 0
    BY <1>3, Size
  <1>. QED
    BY <1>1, <1>4, Size

LEMMA RoundDownIs ==
    ASSUME NEW a \in Int
    PROVE  /\ Aligned(RoundDown(a)) /\ RoundDown(a) \in Int
           /\ RoundDown(a) <= a /\ a < RoundDown(a) + RegionSize
           /\ RoundDown(a) = a - (a % RegionSize)
           /\ Aligned(a) => RoundDown(a) = a
           /\ \A b : Aligned(b) /\ b <= a => b <= RoundDown(a)
  <1>1. /\ a % RegionSize \in 0..(RegionSize - 1) /\ a \div RegionSize \in Int
        /\ RoundDown(a) = (a \div RegionSize) * RegionSize
    BY Division, Sizes DEF RoundDown
  <1>2. Aligned(RoundDown(a))
    BY <1>1, Multiple
  <1>3. /\ RoundDown(a) \in Int /\ RoundDown(a) <= a /\ a < RoundDown(a) + RegionSize
        /\ RoundDown(a) = a - (a % RegionSize)
    BY <1>1, Sizes DEF RoundDown
  <1>4. ASSUME NEW b, Aligned(b), b <= a, ~(b <= RoundDown(a)) PROVE FALSE
    BY <1>2, <1>3, <1>4, AlignedGap, Sizes DEF Aligned
  <1>. QED
    BY <1>2, <1>3, <1>4 DEF Aligned

LEMMA RoundUpIs ==
    ASSUME NEW a \in Int
    PROVE  /\ Aligned(RoundUp(a)) /\ RoundUp(a) \in Int
           /\ a <= RoundUp(a) /\ RoundUp(a) < a + RegionSize
           /\ \A b : Aligned(b) /\ a <= b => RoundUp(a) <= b
  <1>1. /\ Aligned(RoundUp(a)) /\ RoundUp(a) \in Int
        /\ RoundUp(a) <= a + RegionSize - 1 /\ a + RegionSize - 1 < RoundUp(a) + RegionSize
    <2>1. PICK c \in Int : c = a + RegionSize - 1
      BY Size
    <2>2. RoundUp(a) = RoundDown(c)
      BY <2>1 DEF RoundUp
    <2>3. /\ Aligned(RoundDown(c)) /\ RoundDown(c) \in Int
          /\ RoundDown(c) <= c /\ c < RoundDown(c) + RegionSize
      BY RoundDownIs
    <2>. QED
      BY <2>1, <2>2, <2>3
  <1>2. ASSUME NEW b, Aligned(b), a <= b, ~(RoundUp(a) <= b) PROVE FALSE
    <2>1. b + RegionSize <= RoundUp(a)
      BY <1>1, <1>2, AlignedGap DEF Aligned
    <2>. QED
      BY <1>1, <1>2, <2>1, Sizes DEF Aligned
  <1>. QED
    BY <1>1, <1>2, Sizes

----------------------------------------------------------------------------
(* A function, how far a jump reaches from it, and the passes.             *)

LEMMA FunctionType ==
    ASSUME fn \in Function
    PROVE  /\ fn.x64 \in BOOLEAN /\ fn.code \in Seq(Int) /\ fn.failures \in Nat
           /\ fn.at \in Nat /\ RegionSize <= fn.at /\ fn.at < UserTop[fn.x64]
           /\ UserTop[fn.x64] \in Nat /\ Aligned(UserTop[fn.x64])
           /\ Space[FALSE] \in Nat /\ Aligned(Space[FALSE])
           /\ \A m \in fn.memory : /\ m.base \in Nat /\ m.size \in Nat /\ m.size > 0
                                   /\ Aligned(m.base) /\ m.base >= RegionSize
  <1>1. fn.x64 \in BOOLEAN
    BY MemoryAssumption
  <1>2. UserTop[fn.x64] \in Nat /\ Aligned(UserTop[fn.x64]) /\ Space[FALSE] \in Nat
        /\ Aligned(Space[FALSE])
    <2>1. ASSUME NEW x64 \in BOOLEAN
          PROVE  /\ UserTop[x64] \in Nat /\ UserTop[x64] % RegionSize = 0
                 /\ Space[x64] \in Nat /\ Space[x64] % RegionSize = 0
      BY MemoryAssumption
    <2>2. /\ UserTop[fn.x64] \in Nat /\ UserTop[fn.x64] % RegionSize = 0
          /\ Space[FALSE] \in Nat /\ Space[FALSE] % RegionSize = 0
      BY <1>1, <2>1, Zenon
    <2>3. \A a \in Nat : a % RegionSize = 0 => Aligned(a)
      BY DEF Aligned
    <2>. QED
      BY <2>2, <2>3, Zenon
  <1>3. /\ fn.code \in Seq(Int) /\ fn.failures \in Nat
        /\ RegionSize <= fn.at /\ fn.at < UserTop[fn.x64] /\ fn.at \in Nat
    BY MemoryAssumption
  <1>4. ASSUME NEW m \in fn.memory
        PROVE  /\ m.base \in Nat /\ m.size \in Nat \ {0}
               /\ m.base % RegionSize = 0 /\ m.base >= RegionSize
    BY MemoryAssumption
  <1>5. \A m \in fn.memory : /\ m.base \in Nat /\ m.size \in Nat /\ m.size > 0
                              /\ Aligned(m.base) /\ m.base >= RegionSize
    BY <1>4 DEF Aligned
  <1>. QED
    BY <1>1, <1>2, <1>3, <1>5, Zenon

\* The block of the function.
LEMMA BlockIs ==
    ASSUME fn \in Function, NEW t, t = RoundDown(fn.at)
    PROVE  /\ Aligned(t) /\ t \in Nat /\ t >= RegionSize
           /\ t <= fn.at /\ fn.at < t + RegionSize /\ fn.at - t = fn.at % RegionSize
           /\ t > GB => t - GB >= RegionSize
  <1>1. /\ Aligned(t) /\ t \in Int /\ t <= fn.at /\ fn.at < t + RegionSize
        /\ t = fn.at - (fn.at % RegionSize)
        /\ \A b : Aligned(b) /\ b <= fn.at => b <= t
    BY FunctionType, RoundDownIs
  <1>2. t >= RegionSize
    BY <1>1, FunctionType, AlignedSizes
  <1>3. ASSUME t > GB PROVE t - GB >= RegionSize
    <2>1. GB + RegionSize <= t
      BY <1>1, <1>3, AlignedGap, Sizes
    <2>. QED
      BY <1>1, <2>1, Sizes
  <1>4. fn.at % RegionSize \in Int /\ fn.at \in Nat
    <2>1. PICK a \in Nat : a = fn.at
      BY FunctionType
    <2>2. a % RegionSize \in 0..(RegionSize - 1)
      BY Division
    <2>. QED
      BY <2>1, <2>2, Size
  <1>. QED
    BY <1>1, <1>2, <1>3, <1>4, Sizes

LEMMA FirstJumpIs ==
    ASSUME fn \in Function
    PROVE  FirstJump = <<>> \/ \E n \in Int : FirstJump = <<n>>
  <1>1. \A k \in Nat : Cell(k) \in Int
    BY FunctionType DEF Cell
  <1>2. Cell(1) \in Int /\ Cell(2) \in Int /\ fn.at \in Nat
    BY <1>1, FunctionType
  <1>3. fn.at + 5 + Cell(1) \in Int /\ fn.at + 6 + Cell(2) \in Int
    BY <1>2
  <1>. QED
    BY <1>3 DEF FirstJump

LEMMA BoundsAre ==
    ASSUME fn \in Function
    PROVE  /\ JumpBounds.lo \in Nat /\ JumpBounds.hi \in Int
           /\ JumpBounds.lo >= fn.at - (2 * GB - Slack)
           /\ fn.x64 => JumpBounds.hi <= fn.at + (2 * GB - Slack)
           /\ FirstJump = <<>> => /\ JumpBounds.lo = Below2GB(fn.at)
                                  /\ JumpBounds.hi = Above2GB(fn.at)
  <1>1. ASSUME NEW a \in Int
        PROVE  /\ Below2GB(a) \in Nat /\ Below2GB(a) >= a - (2 * GB - Slack)
               /\ Above2GB(a) \in Int
               /\ fn.x64 => Above2GB(a) = a + (2 * GB - Slack)
    <2>1. 2 * GB \in Int /\ 2 * GB > Slack
      BY Sizes
    <2>2. Below2GB(a) \in Nat /\ Below2GB(a) >= a - (2 * GB - Slack)
      BY <2>1, Sizes DEF Below2GB
    <2>3. Above2GB(a) \in Int /\ (fn.x64 => Above2GB(a) = a + (2 * GB - Slack))
      <3>1. Space[FALSE] \in Nat
        BY FunctionType
      <3>2. CASE fn.x64
        BY <2>1, <3>2, Sizes DEF Above2GB
      <3>3. CASE ~fn.x64
        <4>1. \A s \in Nat : s - Slack \in Int
          BY Sizes
        <4>2. Space[FALSE] - Slack \in Int
          BY <3>1, <4>1, Zenon
        <4>3. a + (2 * GB - Slack) \in Int
          BY <2>1, Sizes
        <4>4. Above2GB(a) \in Int
          BY <4>2, <4>3, Zenon DEF Above2GB
        <4>. QED
          BY <3>3, <4>4
      <3>4. fn.x64 \/ ~fn.x64
        OBVIOUS
      <3>. QED
        BY <3>2, <3>3, <3>4, Zenon
    <2>. QED
      BY <2>2, <2>3
  <1>2. fn.at \in Nat /\ FirstJump # <<>> => FirstJump[1] \in Int
    BY FunctionType, FirstJumpIs
  <1>3. /\ JumpBounds.lo = Below2GB(fn.at) \/ (JumpBounds.lo = Below2GB(FirstJump[1]) /\ FirstJump # <<>> /\ ~(FirstJump[1] < fn.at))
        /\ JumpBounds.hi = Above2GB(fn.at) \/ (JumpBounds.hi = Above2GB(FirstJump[1]) /\ FirstJump # <<>> /\ FirstJump[1] < fn.at)
    BY DEF JumpBounds
  <1>4. FirstJump = <<>> => /\ JumpBounds.lo = Below2GB(fn.at)
                            /\ JumpBounds.hi = Above2GB(fn.at)
    BY DEF JumpBounds
  <1>5. JumpBounds.lo \in Nat /\ JumpBounds.lo >= fn.at - (2 * GB - Slack)
    <2>1. CASE JumpBounds.lo = Below2GB(fn.at)
      <3>1. fn.at \in Int
        BY FunctionType
      <3>. QED
        BY <1>1, <2>1, <3>1
    <2>2. CASE /\ JumpBounds.lo = Below2GB(FirstJump[1]) /\ FirstJump # <<>>
               /\ ~(FirstJump[1] < fn.at)
      <3>1. PICK a \in Int : a = FirstJump[1]
        BY <1>2, <2>2, FunctionType
      <3>2. a >= fn.at /\ fn.at \in Nat
        BY <2>2, <3>1, FunctionType
      <3>3. Below2GB(a) \in Nat /\ Below2GB(a) >= a - (2 * GB - Slack)
        BY <1>1
      <3>. QED
        BY <2>2, <3>1, <3>2, <3>3, Sizes
    <2>. QED
      BY <1>3, <2>1, <2>2
  <1>6. JumpBounds.hi \in Int /\ (fn.x64 => JumpBounds.hi <= fn.at + (2 * GB - Slack))
    <2>1. CASE JumpBounds.hi = Above2GB(fn.at)
      <3>1. fn.at \in Int
        BY FunctionType
      <3>2. Above2GB(fn.at) \in Int /\ (fn.x64 => Above2GB(fn.at) = fn.at + (2 * GB - Slack))
        BY <1>1, <3>1
      <3>3. 2 * GB - Slack \in Int
        BY Sizes
      <3>. QED
        BY <2>1, <3>1, <3>2, <3>3
    <2>2. CASE /\ JumpBounds.hi = Above2GB(FirstJump[1]) /\ FirstJump # <<>>
               /\ FirstJump[1] < fn.at
      <3>1. PICK a \in Int : a = FirstJump[1]
        BY <1>2, <2>2, FunctionType
      <3>2. a < fn.at /\ fn.at \in Nat
        BY <2>2, <3>1, FunctionType
      <3>3. Above2GB(a) \in Int /\ (fn.x64 => Above2GB(a) = a + (2 * GB - Slack))
        BY <1>1
      <3>. QED
        BY <2>2, <3>1, <3>2, <3>3, Sizes
    <2>. QED
      BY <1>3, <2>1, <2>2
  <1>. QED
    BY <1>4, <1>5, <1>6

\* The passes of a 64-bit build that do not go from bound to bound.
Early(p) ==
    LET t == RoundDown(fn.at)
        b == JumpBounds
    IN  /\ fn.x64
        /\ \/ t > GB /\ (p = FromHi(b.lo, t - GB) \/ p = FromLo(t - GB, t))
           \/ p = FromLo(t + GB, b.hi) \/ p = FromHi(t, t + GB)

LEMMA PassesAre ==
    ASSUME fn \in Function
    PROVE  \E n \in Nat :
             /\ Len(Passes) = n + 2
             /\ \A k \in 1..n : Early(Passes[k])
             /\ Passes[n + 1] = FromHi(JumpBounds.lo, RoundDown(fn.at))
             /\ Passes[n + 2] = FromLo(RoundDown(fn.at), JumpBounds.hi)
  <1> DEFINE t == RoundDown(fn.at)
             b == JumpBounds
             E == (IF fn.x64 /\ t > GB THEN {FromHi(b.lo, t - GB), FromLo(t - GB, t)} ELSE {})
                  \cup (IF fn.x64 THEN {FromLo(t + GB, b.hi), FromHi(t, t + GB)} ELSE {})
             p1 == IF fn.x64 /\ t > GB THEN <<FromHi(b.lo, t - GB)>> ELSE <<>>
             p2 == IF fn.x64 THEN <<FromLo(t + GB, b.hi)>> ELSE <<>>
             p3 == IF fn.x64 /\ t > GB THEN <<FromLo(t - GB, t)>> ELSE <<>>
             p4 == IF fn.x64 THEN <<FromHi(t, t + GB)>> ELSE <<>>
             x == FromHi(b.lo, t)
             y == FromLo(t, b.hi)
  <1>1. Passes = p1 \o p2 \o p3 \o p4 \o <<x, y>>
    BY DEF Passes
  <1>2. p1 \in Seq(E) /\ p2 \in Seq(E) /\ p3 \in Seq(E) /\ p4 \in Seq(E)
    <2> HIDE DEF t, b
    <2>1. ASSUME NEW S, NEW e \in S PROVE <<e>> \in Seq(S)
      BY <2>1
    <2>2. ASSUME NEW S PROVE <<>> \in Seq(S)
      OBVIOUS
    <2>3. /\ fn.x64 /\ t > GB => FromHi(b.lo, t - GB) \in E /\ FromLo(t - GB, t) \in E
          /\ fn.x64 => FromLo(t + GB, b.hi) \in E /\ FromHi(t, t + GB) \in E
      OBVIOUS
    <2> HIDE DEF E
    <2>. QED
      BY <2>1, <2>2, <2>3
  <1>3. \A e \in E : Early(e)
    BY DEF Early
  <1> HIDE DEF E, p1, p2, p3, p4, x, y
  <1>4. PICK q \in Seq(E) : Passes = q \o <<x, y>>
    <2>1. ASSUME NEW S, NEW u \in Seq(S), NEW v \in Seq(S) PROVE u \o v \in Seq(S)
      BY <2>1
    <2>2. p1 \o p2 \in Seq(E)
      BY <1>2, <2>1
    <2>3. p1 \o p2 \o p3 \in Seq(E)
      BY <1>2, <2>1, <2>2
    <2>4. p1 \o p2 \o p3 \o p4 \in Seq(E)
      BY <1>2, <2>1, <2>3
    <2>. QED
      BY <1>1, <2>4
  <1>5. /\ Len(q) \in Nat /\ Len(Passes) = Len(q) + 2
        /\ \A k \in 1..Len(q) : Passes[k] = q[k] /\ q[k] \in E
        /\ Passes[Len(q) + 1] = x /\ Passes[Len(q) + 2] = y
    BY <1>4
  <1>. QED
    BY <1>3, <1>5 DEF x, y

LEMMA SamePasses ==
    ASSUME fn' = fn
    PROVE  /\ Passes' = Passes /\ JumpBounds' = JumpBounds /\ FirstJump' = FirstJump
           /\ \A a : Room(a)' <=> Room(a)
  <1>1. FirstJump' = FirstJump
    BY DEF FirstJump, Cell
  <1>2. JumpBounds' = JumpBounds
    BY <1>1 DEF JumpBounds, Above2GB
  <1>3. Passes' = Passes
    BY <1>2 DEF Passes
  <1>4. ASSUME NEW a PROVE Room(a)' <=> Room(a)
    BY DEF Room, Around, NextBase
  <1>. QED
    BY <1>1, <1>2, <1>3, <1>4

----------------------------------------------------------------------------
(* The places a pass looks at.                                             *)

\* A pass that is looked through from its upper end begins a region below it.
PassType(p) ==
    /\ p.from \in {"hi", "lo"} /\ p.lo \in Nat /\ p.hi \in Int
    /\ p.from = "hi" => p.hi >= RegionSize

\* Every place a pass comes to is the beginning of a region, and has not left
\* the pass at the end from which it comes.
At(p, a) ==
    /\ Aligned(a) /\ a \in Nat
    /\ IF p.from = "hi" THEN a + RegionSize <= p.hi ELSE p.lo <= a
Inside(p, a) == IF p.from = "hi" THEN a > p.lo ELSE a < p.hi

LEMMA PassHas ==
    ASSUME fn \in Function, NEW k \in 1..Len(Passes)
    PROVE  PassType(Passes[k])
  <1> DEFINE t == RoundDown(fn.at)
  <1>1. PICK n \in Nat : /\ Len(Passes) = n + 2
                         /\ \A i \in 1..n : Early(Passes[i])
                         /\ Passes[n + 1] = FromHi(JumpBounds.lo, t)
                         /\ Passes[n + 2] = FromLo(t, JumpBounds.hi)
    BY PassesAre
  <1>2. /\ t \in Nat /\ t >= RegionSize /\ (t > GB => t - GB >= RegionSize)
        /\ JumpBounds.lo \in Nat /\ JumpBounds.hi \in Int
    BY BlockIs, BoundsAre
  <1> HIDE DEF t
  <1>3. CASE k \in 1..n
    <2>1. Early(Passes[k])
      BY <1>1, <1>3
    <2>. QED
      BY <1>2, <2>1, Sizes DEF Early, FromHi, FromLo, PassType, t
  <1>4. CASE k = n + 1
    BY <1>1, <1>2, <1>4 DEF FromHi, PassType
  <1>5. CASE k = n + 2
    BY <1>1, <1>2, <1>5 DEF FromLo, PassType
  <1>. QED
    BY <1>1, <1>3, <1>4, <1>5

LEMMA FirstTryAt ==
    ASSUME NEW p, PassType(p)
    PROVE  At(p, FirstTry(p))
  <1>1. CASE p.from = "hi"
    <2>1. PICK a \in Nat : a = p.hi - RegionSize
      BY <1>1, Size DEF PassType
    <2>2. FirstTry(p) = RoundDown(a)
      BY <1>1, <2>1 DEF FirstTry
    <2>3. Aligned(0)
      BY Multiple, Size DEF Aligned
    <2>4. Aligned(RoundDown(a)) /\ RoundDown(a) \in Int /\ 0 <= RoundDown(a) /\ RoundDown(a) <= a
      BY <2>3, RoundDownIs
    <2>. QED
      BY <1>1, <2>1, <2>2, <2>4, Size DEF At, PassType
  <1>2. CASE p.from = "lo"
    <2>1. Aligned(RoundUp(p.lo)) /\ RoundUp(p.lo) \in Int /\ p.lo <= RoundUp(p.lo)
      BY RoundUpIs DEF PassType
    <2>. QED
      BY <1>2, <2>1 DEF FirstTry, At, PassType
  <1>. QED
    BY <1>1, <1>2 DEF PassType

\* What a pass of a 64-bit build looks at is within reach of a jump.
LEMMA PassReach ==
    ASSUME fn \in Function, fn.x64, NEW k \in 1..Len(Passes), NEW a,
           At(Passes[k], a), Inside(Passes[k], a)
    PROVE  fn.at - a < 2 * GB /\ a + RegionSize - fn.at < 2 * GB
  <1> DEFINE t == RoundDown(fn.at)
  <1>1. PICK n \in Nat : /\ Len(Passes) = n + 2
                         /\ \A i \in 1..n : Early(Passes[i])
                         /\ Passes[n + 1] = FromHi(JumpBounds.lo, t)
                         /\ Passes[n + 2] = FromLo(t, JumpBounds.hi)
    BY PassesAre
  <1>2. PICK lo, hi, here : /\ lo = JumpBounds.lo /\ hi = JumpBounds.hi /\ here = fn.at
    OBVIOUS
  <1>3. /\ t \in Nat /\ t <= here /\ here < t + RegionSize /\ here \in Nat
        /\ lo \in Nat /\ hi \in Int /\ lo >= here - (2 * GB - Slack) /\ hi <= here + (2 * GB - Slack)
    BY <1>2, BlockIs, BoundsAre, FunctionType
  <1>4. a \in Nat
    BY DEF At
  <1>5. PICK p : p = Passes[k]
    OBVIOUS
  <1>6. \/ p = FromHi(lo, t - GB) \/ p = FromLo(t - GB, t)
        \/ p = FromLo(t + GB, hi) \/ p = FromHi(t, t + GB)
        \/ p = FromHi(lo, t) \/ p = FromLo(t, hi)
    <2>1. CASE k \in 1..n
      <3>1. Early(p)
        BY <1>1, <1>5, <2>1
      <3>. QED
        BY <1>2, <3>1 DEF Early
    <2>. QED
      BY <1>1, <1>2, <1>5, <2>1
  <1>7. IF p.from = "hi" THEN a > p.lo /\ a + RegionSize <= p.hi ELSE p.lo <= a /\ a < p.hi
    BY <1>5 DEF At, Inside
  <1> HIDE DEF t
  <1>8. (a > lo \/ a >= t - GB) /\ (a + RegionSize <= t + GB \/ a < t \/ a < hi)
    <2>1. CASE p = FromHi(lo, t - GB)
      BY <1>3, <1>4, <1>7, <2>1, Sizes DEF FromHi
    <2>2. CASE p = FromLo(t - GB, t)
      BY <1>3, <1>4, <1>7, <2>2, Sizes DEF FromLo
    <2>3. CASE p = FromLo(t + GB, hi)
      BY <1>3, <1>4, <1>7, <2>3, Sizes DEF FromLo
    <2>4. CASE p = FromHi(t, t + GB)
      BY <1>3, <1>4, <1>7, <2>4, Sizes DEF FromHi
    <2>5. CASE p = FromHi(lo, t)
      BY <1>3, <1>4, <1>7, <2>5, Sizes DEF FromHi
    <2>6. CASE p = FromLo(t, hi)
      BY <1>3, <1>4, <1>7, <2>6, Sizes DEF FromLo
    <2>. QED
      BY <1>6, <2>1, <2>2, <2>3, <2>4, <2>5, <2>6
  <1>9. here - a < 2 * GB /\ a + RegionSize - here < 2 * GB
    BY <1>3, <1>4, <1>8, Sizes
  <1>. QED
    BY <1>2, <1>9

----------------------------------------------------------------------------
(* The steps of the search.                                                *)

SearchInv ==
    /\ fn \in Function
    /\ pv \in Nat \cup {Null} /\ refused \in Nat
    /\ pc = "search" => pv = Null /\ pass \in 1..Len(Passes) /\ At(Pass, pbTry)
    /\ pc = "found" => pv # Null
    /\ pv # Null => \E k \in 1..Len(Passes) : At(Passes[k], pv) /\ Inside(Passes[k], pv)
    /\ FoundUsable

LEMMA NullIs == Null \notin Int
  BY SearchAssumption

\* Where a region fits, nothing is allocated up to its end.
LEMMA RoomIs ==
    ASSUME fn \in Function, NEW a \in Nat, Room(a)
    PROVE  /\ a + RegionSize <= UserTop[fn.x64]
           /\ \A m \in fn.memory : m.base + m.size <= a \/ a + RegionSize <= m.base
  <1> DEFINE T == {m.base : m \in {m \in fn.memory : m.base > a}} \cup {UserTop[fn.x64]}
  <1>1. T \in SUBSET Nat /\ T # {}
    BY FunctionType
  <1>2. NextBase(a) = Min(T)
    BY DEF NextBase
  <1>3. Min(T) \in T /\ \A n \in T : Min(T) <= n
    <2> HIDE DEF T
    <2>1. \E n \in T : \A m \in T : n <= m
      BY <1>1, LeastElement
    <2>. QED
      BY <2>1 DEF Min
  <1>4. \A n \in T : a + RegionSize <= n
    <2>1. Min(T) - a >= RegionSize
      BY <1>2 DEF Room
    <2> HIDE DEF T
    <2>2. PICK least \in Nat : least = Min(T)
      BY <1>1, <1>3
    <2>3. a + RegionSize <= least
      BY <2>1, <2>2, Size
    <2>. QED
      BY <1>1, <1>3, <2>2, <2>3, Size
  <1>5. \A m \in fn.memory : m.base > a => a + RegionSize <= m.base
    BY <1>4
  <1>6. \A m \in fn.memory : ~(m.base <= a /\ a < m.base + m.size)
    BY DEF Room, Around
  <1>7. ASSUME NEW m \in fn.memory PROVE m.base + m.size <= a \/ a + RegionSize <= m.base
    <2>1. m.base \in Nat /\ m.size \in Nat
      BY FunctionType
    <2>. QED
      BY <1>5, <1>6, <2>1
  <1>8. a + RegionSize <= UserTop[fn.x64]
    BY <1>4
  <1>. QED
    BY <1>7, <1>8

\* An allocation is in the way where there is no room.
LEMMA NoRoomIs ==
    ASSUME fn \in Function, NEW a \in Nat, Aligned(a), ~Room(a), a < UserTop[fn.x64]
    PROVE  Around(a) # {}
  <1> SUFFICES ASSUME Around(a) = {} PROVE FALSE
    OBVIOUS
  <1> DEFINE T == {m.base : m \in {m \in fn.memory : m.base > a}} \cup {UserTop[fn.x64]}
  <1>1. T \in SUBSET Nat /\ T # {} /\ \A n \in T : Aligned(n) /\ a < n
    BY FunctionType
  <1>2. NextBase(a) = Min(T)
    BY DEF NextBase
  <1> HIDE DEF T
  <1>3. Min(T) \in T
    <2>1. \E n \in T : \A m \in T : n <= m
      BY <1>1, LeastElement
    <2>. QED
      BY <2>1 DEF Min
  <1>4. a + RegionSize <= Min(T) /\ Min(T) \in Nat
    BY <1>1, <1>3, AlignedGap
  <1>5. NextBase(a) - a >= RegionSize
    BY <1>2, <1>4, Size
  <1>. QED
    BY <1>5 DEF Room

LEMMA EndPassInv ==
    ASSUME SearchInv, pc = "search", EndPass, UNCHANGED <<fn, pv>>, refused' \in Nat
    PROVE  SearchInv'
  <1>1. Passes' = Passes /\ FoundUsable'
    BY SamePasses DEF SearchInv, FoundUsable
  <1>2. Len(Passes) \in Nat
    BY PassesAre DEF SearchInv
  <1>3. CASE pass < Len(Passes)
    <2>1. pass' = pass + 1 /\ pass' \in 1..Len(Passes) /\ pbTry' = FirstTry(Passes[pass + 1])
      BY <1>2, <1>3 DEF EndPass, SearchInv
    <2>2. At(Passes[pass'], pbTry')
      BY <2>1, PassHas, FirstTryAt DEF SearchInv
    <2>3. At(Pass, pbTry)'
      BY <1>1, <2>2 DEF Pass, At
    <2>4. pc' = "search" /\ pv' = Null
      BY <1>3 DEF EndPass, SearchInv
    <2>. QED
      BY <1>1, <2>1, <2>3, <2>4 DEF SearchInv
  <1>4. CASE ~(pass < Len(Passes))
    <2>1. pc' = "none" /\ pv' = Null
      BY <1>4 DEF EndPass, SearchInv
    <2>. QED
      BY <1>1, <2>1 DEF SearchInv
  <1>. QED
    BY <1>3, <1>4

\* A step within a pass.
LEMMA WithinInv ==
    ASSUME SearchInv, pc = "search", UNCHANGED <<fn, pc, pass, pv>>, refused' \in Nat,
           At(Pass, pbTry')
    PROVE  SearchInv'
  <1>1. Passes' = Passes /\ FoundUsable'
    BY SamePasses DEF SearchInv, FoundUsable
  <1>2. At(Pass, pbTry)'
    BY <1>1 DEF Pass, At
  <1>. QED
    BY <1>1, <1>2 DEF SearchInv

LEMMA SkipSystemInv ==
    ASSUME SearchInv, SkipSystem
    PROVE  SearchInv'
  <1>1. /\ pc = "search" /\ InSystem /\ UNCHANGED <<fn, pc, pass, pv, refused>>
        /\ pbTry' = IF Pass.from = "hi" THEN pbTry - SystemStep ELSE pbTry + SystemStep
    BY DEF SkipSystem, Searching
  <1>2. At(Pass, pbTry) /\ PassType(Pass)
    BY <1>1, PassHas DEF SearchInv, Pass
  <1>3. Aligned(pbTry')
    BY <1>1, <1>2, AlignedSum, Sizes DEF At
  <1>4. pbTry' \in Nat
    BY <1>1, <1>2, SearchAssumption DEF At, InSystem
  <1>5. At(Pass, pbTry')
    BY <1>1, <1>2, <1>3, <1>4, Sizes DEF At, PassType
  <1>. QED
    BY <1>1, <1>5, WithinInv DEF SearchInv

\* Around an allocation, downwards and upwards.
LEMMA PassOverIs ==
    ASSUME SearchInv, PassOver
    PROVE  /\ pc = "search" /\ UNCHANGED <<fn, pc, pass, pv, refused>>
           /\ \E m \in fn.memory :
                /\ m.base <= pbTry /\ pbTry < m.base + m.size
                /\ IF Pass.from = "hi"
                   THEN pbTry' = m.base - RegionSize
                   ELSE pbTry' = RoundUp(m.base + m.size)
  <1>1. /\ pc = "search" /\ UNCHANGED <<fn, pc, pass, pv, refused>>
        /\ Queried /\ ~Room(pbTry) /\ Inside(Pass, pbTry)
    BY DEF PassOver, Searching, Between, Inside
  <1>2. At(Pass, pbTry) /\ fn \in Function
    BY <1>1 DEF SearchInv
  <1>3. Around(pbTry) # {}
    BY <1>1, <1>2, NoRoomIs DEF At, Queried
  <1>4. PICK m : m = CHOOSE k \in Around(pbTry) : TRUE
    OBVIOUS
  <1>5. m \in fn.memory /\ m.base <= pbTry /\ pbTry < m.base + m.size
    BY <1>3, <1>4 DEF Around
  <1>6. pbTry' = IF Pass.from = "hi" THEN RoundDown(m.base - RegionSize) ELSE RoundUp(m.base + m.size)
    BY <1>4 DEF PassOver
  <1>7. RoundDown(m.base - RegionSize) = m.base - RegionSize
    <2>1. PICK b \in Nat : b = m.base /\ Aligned(b)
      BY <1>2, <1>5, FunctionType
    <2>2. Aligned(b - RegionSize)
      BY <2>1, AlignedSum, AlignedSizes
    <2>3. b - RegionSize \in Int
      BY <2>1, Size
    <2>. QED
      BY <2>1, <2>2, <2>3, RoundDownIs
  <1>. QED
    BY <1>1, <1>5, <1>6, <1>7

LEMMA PassOverInv ==
    ASSUME SearchInv, PassOver
    PROVE  SearchInv'
  <1>1. pc = "search" /\ UNCHANGED <<fn, pc, pass, pv, refused>>
    BY PassOverIs
  <1>2. PICK m \in fn.memory :
                /\ m.base <= pbTry /\ pbTry < m.base + m.size
                /\ IF Pass.from = "hi"
                   THEN pbTry' = m.base - RegionSize
                   ELSE pbTry' = RoundUp(m.base + m.size)
    BY PassOverIs
  <1>3. At(Pass, pbTry) /\ PassType(Pass)
    BY <1>1, PassHas DEF SearchInv, Pass
  <1>4. /\ m.base \in Nat /\ m.size \in Nat /\ Aligned(m.base) /\ m.base >= RegionSize
    BY FunctionType DEF SearchInv
  <1>5. CASE Pass.from = "hi"
    <2>1. Aligned(m.base - RegionSize)
      BY <1>4, AlignedSum, AlignedSizes
    <2>. QED
      BY <1>1, <1>2, <1>3, <1>4, <1>5, <2>1, Size, WithinInv DEF At, PassType, SearchInv
  <1>6. CASE Pass.from # "hi"
    <2>1. PICK e \in Nat : e = m.base + m.size
      BY <1>4
    <2>2. Aligned(RoundUp(e)) /\ RoundUp(e) \in Int /\ e <= RoundUp(e)
      BY RoundUpIs
    <2>3. At(Pass, pbTry')
      BY <1>2, <1>3, <1>6, <2>1, <2>2 DEF At, PassType
    <2>. QED
      BY <1>1, <2>3, WithinInv DEF SearchInv
  <1>. QED
    BY <1>5, <1>6

LEMMA AllocateInv ==
    ASSUME SearchInv, Allocate
    PROVE  SearchInv'
  <1>1. /\ pc = "search" /\ Inside(Pass, pbTry) /\ Queried /\ Room(pbTry)
        /\ pv' = pbTry /\ pc' = "found" /\ UNCHANGED <<fn, pass, pbTry, refused>>
    BY DEF Allocate, Searching, Between, Inside
  <1>2. At(Pass, pbTry) /\ fn \in Function /\ pass \in 1..Len(Passes)
    BY <1>1 DEF SearchInv
  <1>3. pbTry \in Nat /\ pbTry % RegionSize = 0
    BY <1>2 DEF At, Aligned
  <1>4. /\ pbTry + RegionSize <= UserTop[fn.x64]
        /\ \A m \in fn.memory : m.base + m.size <= pbTry \/ pbTry + RegionSize <= m.base
    BY <1>1, <1>2, <1>3, RoomIs
  <1>5. ~(SystemLo <= pbTry /\ pbTry <= SystemHi)
    BY <1>1 DEF Queried, InSystem
  <1>6. fn.x64 => fn.at - pbTry < 2 * GB /\ pbTry + RegionSize - fn.at < 2 * GB
    BY <1>1, <1>2, PassReach DEF Pass
  <1>7. FoundUsable'
    BY <1>1, <1>3, <1>4, <1>5, <1>6 DEF FoundUsable
  <1>8. Passes' = Passes
    BY <1>1, SamePasses
  <1>9. pv' # Null
    BY <1>1, <1>3, NullIs
  <1>10. At(Passes'[pass], pv') /\ Inside(Passes'[pass], pv') /\ pass \in 1..Len(Passes')
    BY <1>1, <1>2, <1>8 DEF Pass
  <1>. QED
    BY <1>1, <1>2, <1>3, <1>7, <1>9, <1>10 DEF SearchInv, At, Inside

LEMMA RefuseInv ==
    ASSUME SearchInv, Refuse
    PROVE  SearchInv'
  <1>1. /\ pc = "search" /\ Inside(Pass, pbTry) /\ UNCHANGED <<fn, pc, pass, pv>>
        /\ refused' = refused + 1
        /\ pbTry' = IF Pass.from = "hi" THEN pbTry - RegionSize ELSE pbTry + RegionSize
    BY DEF Refuse, Searching, Between, Inside
  <1>2. At(Pass, pbTry) /\ PassType(Pass)
    BY <1>1, PassHas DEF SearchInv, Pass
  <1>3. Aligned(pbTry')
    BY <1>1, <1>2, AlignedSum, AlignedSizes DEF At
  <1>4. pbTry' \in Nat
    <2>1. CASE Pass.from = "hi"
      <3>1. pbTry > 0 /\ Aligned(0)
        BY <1>1, <1>2, <2>1, Multiple, Size DEF Inside, PassType, At, Aligned
      <3>2. 0 + RegionSize <= pbTry
        BY <1>2, <3>1, AlignedGap DEF At
      <3>. QED
        BY <1>1, <1>2, <2>1, <3>2, Size DEF At
    <2>2. CASE Pass.from # "hi"
      BY <1>1, <1>2, <2>2, Size DEF At
    <2>. QED
      BY <2>1, <2>2
  <1>5. At(Pass, pbTry')
    BY <1>1, <1>2, <1>3, <1>4, Size DEF At, PassType
  <1>6. refused' \in Nat
    BY <1>1 DEF SearchInv
  <1>. QED
    BY <1>1, <1>5, <1>6, WithinInv

LEMMA EndsInv ==
    ASSUME SearchInv, Block \/ Exhaust
    PROVE  SearchInv'
  <1>1. pc = "search" /\ EndPass /\ UNCHANGED <<fn, pv>>
    BY DEF Block, Exhaust, Searching
  <1>2. refused' \in Nat
    BY DEF Block, Exhaust, SearchInv
  <1>. QED
    BY <1>1, <1>2, EndPassInv

\* The steps that follow the search leave alone what it has found.
LEMMA AfterInv ==
    ASSUME SearchInv, UNCHANGED <<fn, pv, refused>>, pc' \notin {"search", "found"}
    PROVE  SearchInv'
  <1>1. Passes' = Passes /\ FoundUsable'
    BY SamePasses DEF SearchInv, FoundUsable
  <1>. QED
    BY <1>1 DEF SearchInv, At, Inside

LEMMA SearchBegins == Init => SearchInv
  <1> SUFFICES ASSUME Init PROVE SearchInv
    OBVIOUS
  <1>1. /\ fn \in Function /\ pc = "search" /\ pass = 1 /\ pv = Null /\ refused = 0
        /\ pbTry = FirstTry(Passes[1])
    BY DEF Init, SearchInit
  <1>2. 1 \in 1..Len(Passes)
    BY <1>1, PassesAre
  <1>3. At(Passes[1], pbTry)
    BY <1>1, <1>2, PassHas, FirstTryAt
  <1>. QED
    BY <1>1, <1>2, <1>3 DEF SearchInv, FoundUsable, Pass

LEMMA SearchStep == SearchInv /\ [Next]_vars => SearchInv'
  <1> SUFFICES ASSUME SearchInv, [Next]_vars PROVE SearchInv'
    OBVIOUS
  <1>1. CASE Search
    BY <1>1, SkipSystemInv, PassOverInv, AllocateInv, RefuseInv, EndsInv DEF Search
  <1>2. CASE TakeTrampoline
    BY <1>2, AfterInv DEF TakeTrampoline
  <1>3. CASE CopyInstruction
    BY <1>3, AfterInv DEF CopyInstruction
  <1>4. CASE Pad
    BY <1>4, AfterInv DEF Pad
  <1>5. CASE Finish
    BY <1>5, AfterInv DEF Finish
  <1>6. CASE UNCHANGED vars
    <2>1. UNCHANGED <<fn, pc, pass, pbTry, pv, refused>>
      BY <1>6 DEF vars, searchVars
    <2>2. Passes' = Passes /\ FoundUsable'
      BY <2>1, SamePasses DEF SearchInv, FoundUsable
    <2>. QED
      BY <2>1, <2>2 DEF SearchInv, Pass, At, Inside
  <1>. QED
    BY <1>1, <1>2, <1>3, <1>4, <1>5, <1>6 DEF Next, Ended

LEMMA SearchAlways == Spec => []SearchInv
  <1>. QED
    BY SearchBegins, SearchStep, PTL DEF Spec

\* detour_alloc_region_from_lo and detour_alloc_region_from_hi only find memory
\* that is free and whole, away from system libraries, and, in a 64-bit build,
\* within two gigabytes of the function, wherever it is, whatever it begins
\* with, whatever is allocated and whatever VirtualAlloc refuses.
THEOREM SearchFindsUsable == Spec => []FoundUsable
  <1>1. SearchInv => FoundUsable
    BY DEF SearchInv
  <1>. QED
    BY SearchAlways, <1>1, PTL

----------------------------------------------------------------------------
(* What is found and not used.                                             *)

\* The sanity check at the end of detour_alloc_trampoline has failed.
OutOfBounds == pc = "none" /\ pv # Null => ~(JumpBounds.lo <= place /\ place <= JumpBounds.hi)

LEMMA PlaceIs ==
    ASSUME fn \in Function, pv \in Nat
    PROVE  /\ place \in Nat /\ pv < place /\ place < pv + RegionSize
           /\ place = pv + 3 * TrampolineSize /\ TrampolineSize \in Nat
  <1>1. TrampolineSize \in Nat /\ 0 < TrampolineSize /\ TrampolineSize <= 96
    BY DEF TrampolineSize
  <1>. QED
    BY <1>1, Sizes DEF place

LEMMA SamePlace == ASSUME UNCHANGED <<fn, pv>> PROVE place' = place
  BY DEF place, TrampolineSize

LEMMA OutOfBoundsStep == SearchInv /\ OutOfBounds /\ [Next]_vars => OutOfBounds'
  <1> SUFFICES ASSUME SearchInv, OutOfBounds, [Next]_vars PROVE OutOfBounds'
    OBVIOUS
  <1>1. CASE Search
    <2>1. CASE Allocate
      BY <2>1 DEF Allocate, OutOfBounds
    <2>2. CASE ~Allocate
      <3>1. pc = "search" /\ pv' = pv
        BY <1>1, <2>2 DEF Search, SkipSystem, PassOver, Refuse, Block, Exhaust, Searching
      <3>. QED
        BY <3>1 DEF SearchInv, OutOfBounds
    <2>. QED
      BY <2>1, <2>2
  <1>2. CASE TakeTrampoline
    <2>1. UNCHANGED <<fn, pv>>
      BY <1>2 DEF TakeTrampoline
    <2>2. pc' = "none" => ~(JumpBounds.lo <= place /\ place <= JumpBounds.hi)
      BY <1>2 DEF TakeTrampoline
    <2>. QED
      BY <2>1, <2>2, SamePasses, SamePlace DEF OutOfBounds
  <1>3. CASE CopyInstruction \/ Pad \/ Finish
    <2>1. pc' # "none"
      BY <1>3 DEF CopyInstruction, Pad, Finish
    <2>. QED
      BY <2>1 DEF OutOfBounds
  <1>4. CASE UNCHANGED vars
    <2>1. UNCHANGED <<fn, pc, pv>>
      BY <1>4 DEF vars, searchVars
    <2>. QED
      BY <2>1, SamePasses, SamePlace DEF OutOfBounds
  <1>. QED
    BY <1>1, <1>2, <1>3, <1>4 DEF Next, Ended

\* What each pass finds.
LEMMA FoundWhere ==
    ASSUME SearchInv, pv # Null, NEW t, t = RoundDown(fn.at),
           NEW lo, lo = JumpBounds.lo, NEW hi, hi = JumpBounds.hi
    PROVE  /\ pv \in Nat /\ Aligned(pv)
           /\ \/ fn.x64 /\ t - GB <= pv /\ pv < t
              \/ fn.x64 /\ t < pv /\ pv + RegionSize <= t + GB
              \/ lo < pv /\ pv + RegionSize <= t
              \/ t <= pv /\ pv < hi
  <1>1. PICK k \in 1..Len(Passes) : At(Passes[k], pv) /\ Inside(Passes[k], pv)
    BY DEF SearchInv
  <1>2. PICK n \in Nat : /\ Len(Passes) = n + 2
                         /\ \A i \in 1..n : Early(Passes[i])
                         /\ Passes[n + 1] = FromHi(lo, t)
                         /\ Passes[n + 2] = FromLo(t, hi)
    BY PassesAre DEF SearchInv
  <1>3. t \in Nat /\ lo \in Nat /\ hi \in Int
    BY BlockIs, BoundsAre DEF SearchInv
  <1>4. PICK p : p = Passes[k]
    OBVIOUS
  <1>5. \/ fn.x64 /\ \/ p = FromHi(lo, t - GB) \/ p = FromLo(t - GB, t)
                     \/ p = FromLo(t + GB, hi) \/ p = FromHi(t, t + GB)
        \/ p = FromHi(lo, t) \/ p = FromLo(t, hi)
    <2>1. CASE k \in 1..n
      <3>1. Early(p)
        BY <1>2, <1>4, <2>1
      <3>. QED
        BY <3>1 DEF Early
    <2>. QED
      BY <1>2, <1>4, <2>1
  <1>6. pv \in Nat /\ Aligned(pv)
    BY <1>1 DEF At
  <1>7. IF p.from = "hi" THEN pv > p.lo /\ pv + RegionSize <= p.hi ELSE p.lo <= pv /\ pv < p.hi
    BY <1>1, <1>4 DEF At, Inside
  <1>8. CASE p = FromHi(lo, t - GB)
    BY <1>3, <1>6, <1>7, <1>8, Sizes DEF FromHi
  <1>9. CASE fn.x64 /\ p = FromLo(t - GB, t)
    BY <1>3, <1>6, <1>7, <1>9, Sizes DEF FromLo
  <1>10. CASE p = FromLo(t + GB, hi)
    BY <1>3, <1>6, <1>7, <1>10, Sizes DEF FromLo
  <1>11. CASE fn.x64 /\ p = FromHi(t, t + GB)
    BY <1>3, <1>6, <1>7, <1>11, Sizes DEF FromHi
  <1>12. CASE p = FromHi(lo, t)
    BY <1>3, <1>6, <1>7, <1>12, Sizes DEF FromHi
  <1>13. CASE p = FromLo(t, hi)
    BY <1>3, <1>6, <1>7, <1>13, Sizes DEF FromLo
  <1>. QED
    BY <1>5, <1>8, <1>9, <1>10, <1>11, <1>12, <1>13

\* Below the bounds of a function that begins with no jump.
LEMMA BelowBounds ==
    ASSUME SearchInv, pv # Null, FirstJump = <<>>, place < JumpBounds.lo
    PROVE  pv < Slack
  <1>1. PICK t, lo, hi, here : /\ t = RoundDown(fn.at) /\ lo = JumpBounds.lo
                               /\ hi = JumpBounds.hi /\ here = fn.at
    OBVIOUS
  <1>2. /\ pv \in Nat /\ Aligned(pv)
        /\ \/ fn.x64 /\ t - GB <= pv /\ pv < t
           \/ fn.x64 /\ t < pv /\ pv + RegionSize <= t + GB
           \/ lo < pv /\ pv + RegionSize <= t
           \/ t <= pv /\ pv < hi
    BY <1>1, FoundWhere
  <1>3. t \in Nat /\ here \in Nat /\ lo \in Nat /\ t <= here /\ here < t + RegionSize
    BY <1>1, BlockIs, FunctionType, BoundsAre DEF SearchInv
  <1>4. pv < lo
    <2>1. pv < place /\ place \in Nat
      BY <1>2, PlaceIs DEF SearchInv
    <2>. QED
      BY <1>1, <1>2, <1>3, <2>1
  <1>5. lo = IF here > 2 * GB - Slack THEN here - (2 * GB - Slack) ELSE Slack
    BY <1>1, BoundsAre DEF SearchInv, Below2GB
  <1>6. t - GB <= pv
    BY <1>2, <1>3, <1>4, Sizes
  <1>7. Slack + RegionSize <= GB
    BY AlignedGap, Sizes
  <1>. QED
    BY <1>2, <1>3, <1>4, <1>5, <1>6, <1>7, Sizes

\* Above them.
LEMMA AboveBounds ==
    ASSUME SearchInv, pv # Null, FirstJump = <<>>, place > JumpBounds.hi
    PROVE  \/ ~fn.x64 /\ pv >= Space[FALSE] - Slack
           \/ /\ pv = RoundDown(fn.at) + (2 * GB - Slack)
              /\ fn.at % RegionSize < 3 * TrampolineSize
  <1>1. PICK t, lo, hi, here, far, top :
           /\ t = RoundDown(fn.at) /\ lo = JumpBounds.lo /\ hi = JumpBounds.hi
           /\ here = fn.at /\ far = 2 * GB - Slack /\ top = Space[FALSE] - Slack
    OBVIOUS
  <1>2. /\ pv \in Nat /\ Aligned(pv)
        /\ \/ fn.x64 /\ t - GB <= pv /\ pv < t
           \/ fn.x64 /\ t < pv /\ pv + RegionSize <= t + GB
           \/ lo < pv /\ pv + RegionSize <= t
           \/ t <= pv /\ pv < hi
    BY <1>1, FoundWhere
  <1>3. /\ t \in Nat /\ here \in Nat /\ hi \in Int /\ t <= here /\ here < t + RegionSize
        /\ Aligned(t) /\ here - t = fn.at % RegionSize
    BY <1>1, BlockIs, FunctionType, BoundsAre DEF SearchInv
  <1>4. /\ place \in Nat /\ place < pv + RegionSize /\ place > hi
        /\ place = pv + 3 * TrampolineSize /\ TrampolineSize \in Nat
    BY <1>1, <1>2, PlaceIs DEF SearchInv
  <1>5. far \in Nat /\ GB < far /\ Aligned(far) /\ Aligned(t + far)
    <2>1. far \in Nat /\ GB < far
      BY <1>1, Sizes
    <2>2. Aligned(far)
      BY <1>1, AlignedSizes
    <2>. QED
      BY <1>3, <2>1, <2>2, AlignedSum
  <1>6. top \in Int /\ Aligned(top)
    BY <1>1, FunctionType, AlignedSum, Sizes DEF SearchInv, Aligned
  <1>7. hi = here + far \/ (~fn.x64 /\ hi = top)
    BY <1>1, BoundsAre DEF SearchInv, Above2GB
  <1>8. CASE hi = here + far
    <2>1. t <= pv /\ pv < hi
      <3>1. pv < t => pv + RegionSize <= t
        BY <1>2, <1>3, AlignedGap
      <3>. QED
        BY <1>2, <1>3, <1>4, <1>5, <1>8, <3>1, Sizes
    <2>2. pv <= t + far
      <3>1. t + far < pv => t + far + RegionSize <= pv
        BY <1>2, <1>5, AlignedGap
      <3>. QED
        BY <1>2, <1>3, <1>5, <1>8, <2>1, <3>1, Sizes
    <2>3. pv >= t + far
      <3>1. pv < t + far => pv + RegionSize <= t + far
        BY <1>2, <1>5, AlignedGap
      <3>. QED
        BY <1>2, <1>3, <1>4, <1>5, <1>8, <3>1, Sizes
    <2>4. pv = t + far
      BY <1>2, <1>3, <1>5, <2>2, <2>3
    <2>5. here - t < 3 * TrampolineSize
      BY <1>3, <1>4, <1>5, <1>8, <2>4
    <2>. QED
      BY <1>1, <1>3, <2>4, <2>5
  <1>9. CASE ~fn.x64 /\ hi = top
    <2>1. pv < top => pv + RegionSize <= top
      BY <1>2, <1>6, AlignedGap
    <2>2. pv >= top
      BY <1>2, <1>4, <1>6, <1>9, <2>1, Sizes
    <2>. QED
      BY <1>1, <1>9, <2>2
  <1>. QED
    BY <1>7, <1>8, <1>9

\* detour_alloc_trampoline returns nothing although the search has found memory
\* only where its last sanity check fails: for functions that begin with a jump
\* and at a few edges, and never for a function in the middle of things.
THEOREM SearchReachesAllButEdges == Spec => []UnreachableOnlyAtEdges
  <1>1. Init => OutOfBounds
    BY DEF Init, SearchInit, OutOfBounds
  <1>2. ASSUME SearchInv, OutOfBounds PROVE UnreachableOnlyAtEdges
    <2> SUFFICES ASSUME pc = "none", pv # Null, FirstJump = <<>>
                 PROVE  \/ pv < Slack
                        \/ ~fn.x64 /\ pv >= Space[FALSE] - Slack
                        \/ /\ pv = RoundDown(fn.at) + (2 * GB - Slack)
                           /\ fn.at % RegionSize < 3 * TrampolineSize
      BY DEF UnreachableOnlyAtEdges
    <2>1. place < JumpBounds.lo \/ place > JumpBounds.hi
      <3>1. pv \in Nat /\ fn \in Function
        BY <1>2 DEF SearchInv
      <3>2. place \in Nat /\ JumpBounds.lo \in Nat /\ JumpBounds.hi \in Int
        BY <3>1, PlaceIs, BoundsAre
      <3>. QED
        BY <1>2, <3>2 DEF OutOfBounds
    <2>2. CASE place < JumpBounds.lo
      BY <1>2, <2>2, BelowBounds
    <2>3. CASE place > JumpBounds.hi
      BY <1>2, <2>3, AboveBounds
    <2>. QED
      BY <2>1, <2>2, <2>3
  <1>3. SearchInv /\ OutOfBounds => UnreachableOnlyAtEdges
    BY <1>2
  <1>. QED
    BY SearchAlways, OutOfBoundsStep, <1>1, <1>3, PTL DEF Spec

----------------------------------------------------------------------------
(* What is not found.  The last two passes go over all that is within the  *)
(* bounds, downwards and then upwards from the function.                   *)

\* A region that is not near the system region.
Fitting(a) ==
    /\ Aligned(a) /\ a \in Nat /\ Room(a) /\ a < UserTop[fn.x64]
    /\ a <= SystemLo - SystemStep \/ a >= SystemHi + SystemStep

\* Where the last two passes have been there is none.
Unseen(a) ==
    LET t == RoundDown(fn.at)
    IN  /\ pc = "search" /\ pass = Len(Passes) - 1 /\ JumpBounds.lo < a /\ a < t => a <= pbTry
        /\ pc = "search" /\ pass = Len(Passes) =>
             /\ ~(JumpBounds.lo < a /\ a < t)
             /\ t <= a /\ a < JumpBounds.hi => pbTry <= a
        /\ pc = "none" => ~(JumpBounds.lo < a /\ a < JumpBounds.hi)
Swept == refused = 0 /\ pv = Null => \A a : Fitting(a) => Unseen(a)

LEMMA LastPasses ==
    ASSUME fn \in Function
    PROVE  /\ Len(Passes) \in Nat /\ Len(Passes) >= 2
           /\ Passes[Len(Passes) - 1] = FromHi(JumpBounds.lo, RoundDown(fn.at))
           /\ Passes[Len(Passes)] = FromLo(RoundDown(fn.at), JumpBounds.hi)
  <1>1. PICK n \in Nat : /\ Len(Passes) = n + 2
                         /\ Passes[n + 1] = FromHi(JumpBounds.lo, RoundDown(fn.at))
                         /\ Passes[n + 2] = FromLo(RoundDown(fn.at), JumpBounds.hi)
    BY PassesAre
  <1>2. Len(Passes) - 1 = n + 1
    BY <1>1
  <1>. QED
    BY <1>1, <1>2

\* They begin at the function.
LEMMA LastBegin ==
    ASSUME fn \in Function, NEW a, Fitting(a), NEW t, t = RoundDown(fn.at)
    PROVE  /\ a < t => a <= FirstTry(Passes[Len(Passes) - 1])
           /\ t <= a => FirstTry(Passes[Len(Passes)]) <= a
  <1>1. t \in Nat /\ Aligned(t) /\ a \in Nat /\ Aligned(a)
    BY BlockIs DEF Fitting
  <1>2. ASSUME a < t PROVE a <= FirstTry(Passes[Len(Passes) - 1])
    <2>1. PICK b \in Int : b = t - RegionSize
      BY <1>1, Size
    <2>2. FirstTry(Passes[Len(Passes) - 1]) = RoundDown(b)
      BY <2>1, LastPasses DEF FirstTry, FromHi
    <2>3. a <= b
      <3>1. a + RegionSize <= t
        BY <1>1, <1>2, AlignedGap
      <3>. QED
        BY <1>1, <2>1, <3>1, Size
    <2>. QED
      BY <1>1, <2>2, <2>3, RoundDownIs
  <1>3. ASSUME t <= a PROVE FirstTry(Passes[Len(Passes)]) <= a
    <2>1. FirstTry(Passes[Len(Passes)]) = RoundUp(t)
      BY LastPasses DEF FirstTry, FromLo
    <2>. QED
      BY <1>1, <1>3, <2>1, RoundUpIs
  <1>. QED
    BY <1>2, <1>3

LEMMA SameUnseen ==
    ASSUME NEW a, fn' = fn
    PROVE  (Fitting(a)' <=> Fitting(a)) /\ RoundDown(fn.at)' = RoundDown(fn.at)
  <1>1. Room(a)' <=> Room(a)
    BY SamePasses
  <1>. QED
    BY <1>1 DEF Fitting, Aligned, RoundDown

\* A step within a pass that does not leave out what fits.
LEMMA WithinSwept ==
    ASSUME SearchInv, Swept, UNCHANGED <<fn, pc, pass, pv, refused>>,
           \A a : Fitting(a) => IF Pass.from = "hi" THEN a <= pbTry => a <= pbTry'
                                                     ELSE pbTry <= a => pbTry' <= a
    PROVE  Swept'
  <1> SUFFICES ASSUME refused = 0, pv = Null, NEW a, Fitting(a) PROVE Unseen(a)'
    BY SameUnseen DEF Swept
  <1>1. Unseen(a)
    BY DEF Swept
  <1>2. /\ pass = Len(Passes) - 1 => Pass.from = "hi"
        /\ pass = Len(Passes) => Pass.from = "lo"
    BY LastPasses DEF SearchInv, Pass, FromHi, FromLo
  <1>. QED
    BY <1>1, <1>2, SamePasses, SameUnseen DEF Unseen

LEMMA SkipSystemSwept ==
    ASSUME SearchInv, Swept, SkipSystem
    PROVE  Swept'
  <1>1. /\ pc = "search" /\ InSystem /\ UNCHANGED <<fn, pc, pass, pv, refused>>
        /\ pbTry' = IF Pass.from = "hi" THEN pbTry - SystemStep ELSE pbTry + SystemStep
    BY DEF SkipSystem, Searching
  <1>2. pbTry \in Nat /\ SystemLo <= pbTry /\ pbTry <= SystemHi
    BY <1>1 DEF SearchInv, At, InSystem
  <1>3. ASSUME NEW a, Fitting(a)
        PROVE  /\ a <= pbTry => a <= pbTry - SystemStep
               /\ pbTry <= a => pbTry + SystemStep <= a
    BY <1>2, <1>3, Sizes DEF Fitting
  <1>. QED
    BY <1>1, <1>3, WithinSwept

LEMMA PassOverSwept ==
    ASSUME SearchInv, Swept, PassOver
    PROVE  Swept'
  <1>1. pc = "search" /\ UNCHANGED <<fn, pc, pass, pv, refused>>
    BY PassOverIs
  <1>2. PICK m \in fn.memory :
                /\ m.base <= pbTry /\ pbTry < m.base + m.size
                /\ IF Pass.from = "hi"
                   THEN pbTry' = m.base - RegionSize
                   ELSE pbTry' = RoundUp(m.base + m.size)
    BY PassOverIs
  <1>3. PICK b \in Nat, e \in Nat : b = m.base /\ e = m.base + m.size /\ Aligned(b)
    BY FunctionType DEF SearchInv
  <1>4. pbTry \in Nat
    BY <1>1 DEF SearchInv, At
  <1>5. ASSUME NEW a, Fitting(a)
        PROVE  /\ Aligned(a) /\ a \in Nat /\ (a < b \/ e <= a)
    BY <1>3, <1>5 DEF Fitting, Room, Around
  <1>6. ASSUME NEW a, Fitting(a), Pass.from = "hi", a <= pbTry PROVE a <= pbTry'
    <2>1. a < b
      BY <1>2, <1>3, <1>4, <1>5, <1>6
    <2>2. a + RegionSize <= b
      BY <1>3, <1>5, <1>6, <2>1, AlignedGap
    <2>. QED
      BY <1>2, <1>3, <1>5, <1>6, <2>2, Size
  <1>7. ASSUME NEW a, Fitting(a), Pass.from # "hi", pbTry <= a PROVE pbTry' <= a
    <2>1. e <= a
      BY <1>2, <1>3, <1>4, <1>5, <1>7
    <2>2. RoundUp(e) <= a
      BY <1>5, <1>7, <2>1, RoundUpIs
    <2>. QED
      BY <1>2, <1>3, <1>7, <2>2
  <1>. QED
    BY <1>1, <1>6, <1>7, WithinSwept

LEMMA ExhaustSwept ==
    ASSUME SearchInv, Swept, Exhaust
    PROVE  Swept'
  <1>1. pc = "search" /\ EndPass /\ UNCHANGED <<fn, pv, refused>>
    BY DEF Exhaust
  <1> SUFFICES ASSUME refused = 0, pv = Null, NEW a, Fitting(a) PROVE Unseen(a)'
    BY <1>1, SameUnseen DEF Swept
  <1>2. PICK t, lo, hi, n, top : /\ t = RoundDown(fn.at) /\ lo = JumpBounds.lo
                                 /\ hi = JumpBounds.hi /\ n = Len(Passes) /\ top = UserTop[fn.x64]
    OBVIOUS
  <1>3. /\ t \in Nat /\ t < top /\ lo \in Nat /\ hi \in Int /\ top \in Nat
        /\ n \in Nat /\ n >= 2 /\ pass \in 1..n /\ pbTry \in Nat
        /\ a \in Nat /\ a < top
    <2>1. t \in Nat /\ t <= fn.at /\ fn.at \in Nat /\ fn.at < top /\ top \in Nat
      BY <1>2, BlockIs, FunctionType DEF SearchInv
    <2>. QED
      BY <1>1, <1>2, <2>1, BoundsAre, LastPasses DEF SearchInv, At, Fitting
  <1>4. /\ pass = n - 1 /\ lo < a /\ a < t => a <= pbTry
        /\ pass = n => ~(lo < a /\ a < t) /\ (t <= a /\ a < hi => pbTry <= a)
    BY <1>1, <1>2 DEF Swept, Unseen
  <1>5. ~Between \/ pbTry >= top
    BY <1>2, <1>3 DEF Exhaust, Queried
  <1>6. pass = n - 1 => ~(lo < a /\ a < t)
    <2> SUFFICES ASSUME pass = n - 1 PROVE ~(lo < a /\ a < t)
      OBVIOUS
    <2>1. Pass = FromHi(lo, t)
      BY <1>2, LastPasses DEF SearchInv, Pass
    <2>2. pbTry + RegionSize <= t
      BY <1>1, <2>1 DEF SearchInv, At, FromHi
    <2>3. pbTry <= lo
      BY <1>3, <1>5, <2>1, <2>2, Size DEF Between, FromHi
    <2>. QED
      BY <1>3, <1>4, <2>3
  <1>7. pass = n => ~(t <= a /\ a < hi)
    <2> SUFFICES ASSUME pass = n PROVE ~(t <= a /\ a < hi)
      OBVIOUS
    <2>1. Pass = FromLo(t, hi)
      BY <1>2, LastPasses DEF SearchInv, Pass
    <2>2. pbTry >= hi \/ pbTry >= top
      BY <1>3, <1>5, <2>1 DEF Between, FromLo
    <2>. QED
      BY <1>3, <1>4, <2>2
  <1>8. /\ Passes' = Passes /\ JumpBounds' = JumpBounds /\ RoundDown(fn.at)' = t
    BY <1>1, <1>2, SamePasses, SameUnseen
  <1>9. CASE pass < n
    <2>1. pass' = pass + 1 /\ pc' = "search" /\ pbTry' = FirstTry(Passes[pass + 1])
      BY <1>1, <1>2, <1>9 DEF EndPass
    <2>2. pass' = n - 1 /\ a < t => a <= pbTry'
      BY <1>2, <1>3, <2>1, LastBegin DEF SearchInv
    <2>3. pass' = n /\ t <= a => pbTry' <= a
      BY <1>2, <1>3, <2>1, LastBegin DEF SearchInv
    <2>4. pass' = n => pass = n - 1
      BY <1>3, <2>1
    <2>. QED
      BY <1>2, <1>6, <1>8, <2>1, <2>2, <2>3, <2>4 DEF Unseen
  <1>10. CASE ~(pass < n)
    <2>1. pass = n
      BY <1>3, <1>10
    <2>2. pc' = "none"
      BY <1>1, <1>2, <1>10 DEF EndPass
    <2>3. ~(lo < a /\ a < hi)
      BY <1>3, <1>4, <1>7, <2>1
    <2>. QED
      BY <1>2, <1>8, <2>2, <2>3 DEF Unseen
  <1>. QED
    BY <1>9, <1>10

LEMMA SweptBegins == Init => Swept
  <1> SUFFICES ASSUME Init, NEW a, Fitting(a) PROVE Unseen(a)
    BY DEF Swept
  <1>1. /\ fn \in Function /\ pc = "search" /\ pass = 1 /\ pbTry = FirstTry(Passes[1])
    BY DEF Init, SearchInit
  <1>2. Len(Passes) \in Nat /\ Len(Passes) >= 2
    BY <1>1, LastPasses
  <1>3. pass # Len(Passes) /\ (pass = Len(Passes) - 1 => Passes[1] = Passes[Len(Passes) - 1])
    <2>1. PICK n \in Nat : n = Len(Passes)
      BY <1>2
    <2>2. n >= 2
      BY <1>2, <2>1
    <2>3. 1 # n
      BY <2>2
    <2>4. pass # Len(Passes)
      BY <1>1, <2>1, <2>3, Zenon
    <2>5. pass = Len(Passes) - 1 => Passes[1] = Passes[Len(Passes) - 1]
      BY <1>1, Zenon
    <2>. QED
      BY <2>4, <2>5, Zenon
  <1>4. pass = Len(Passes) - 1 /\ a < RoundDown(fn.at) => a <= pbTry
    BY <1>1, <1>3, LastBegin
  <1>. QED
    BY <1>1, <1>3, <1>4 DEF Unseen

LEMMA SweptStep == SearchInv /\ Swept /\ [Next]_vars => Swept'
  <1> SUFFICES ASSUME SearchInv, Swept, [Next]_vars PROVE Swept'
    OBVIOUS
  <1>1. CASE SkipSystem
    BY <1>1, SkipSystemSwept
  <1>2. CASE PassOver
    BY <1>2, PassOverSwept
  <1>3. CASE Exhaust
    BY <1>3, ExhaustSwept
  <1>4. CASE Allocate
    <2>1. pv' = pbTry /\ pbTry \in Nat
      BY <1>4 DEF Allocate, Searching, SearchInv, At
    <2>. QED
      BY <2>1, NullIs DEF Swept
  <1>5. CASE Refuse \/ Block
    <2>1. refused' = refused + 1 /\ refused \in Nat
      BY <1>5 DEF Refuse, Block, SearchInv
    <2>. QED
      BY <2>1 DEF Swept
  <1>6. CASE TakeTrampoline
    <2>1. pv' # Null
      BY <1>6 DEF TakeTrampoline, SearchInv
    <2>. QED
      BY <2>1 DEF Swept
  <1>7. CASE CopyInstruction \/ Pad \/ Finish
    <2>1. pc' \notin {"search", "none"}
      BY <1>7 DEF CopyInstruction, Pad, Finish
    <2>. QED
      BY <2>1 DEF Swept, Unseen
  <1>8. CASE UNCHANGED vars
    <2>1. UNCHANGED <<fn, pc, pass, pbTry, pv, refused>>
      BY <1>8 DEF vars, searchVars
    <2>. QED
      BY <2>1, SamePasses, SameUnseen DEF Swept, Unseen
  <1>. QED
    BY <1>1, <1>2, <1>3, <1>4, <1>5, <1>6, <1>7, <1>8 DEF Next, Search, Ended

\* What is said to fit lies where a region begins.
LEMMA FitsIs ==
    ASSUME fn \in Function, NEW lo \in Int, NEW hi, Fits(lo, hi)
    PROVE  \E a \in Int : /\ Aligned(a) /\ Room(a) /\ a < UserTop[fn.x64]
                          /\ lo <= a /\ a < hi
  <1>1. PICK a \in {RoundUp(lo)} \cup {RoundUp(m.base + m.size) : m \in fn.memory} :
               lo <= a /\ a < hi /\ a < UserTop[fn.x64] /\ Room(a)
    BY DEF Fits
  <1>2. Aligned(a) /\ a \in Int
    <2>1. ASSUME NEW m \in fn.memory, a = RoundUp(m.base + m.size) PROVE Aligned(a) /\ a \in Int
      <3>1. m.base + m.size \in Int
        BY FunctionType
      <3>. QED
        BY <2>1, <3>1, RoundUpIs
    <2>. QED
      BY <1>1, <2>1, RoundUpIs
  <1>. QED
    BY <1>1, <1>2

\* detour_alloc_trampoline_allocate_new, when VirtualAlloc refuses nothing, only
\* fails if no region fits between the bounds, but for what the search skips
\* around the memory it leaves to system libraries.
THEOREM SearchMissesOnlySystem == Spec => []MissesOnlySystem
  <1>1. ASSUME SearchInv, Swept PROVE MissesOnlySystem
    <2> SUFFICES ASSUME pc = "none", pv = Null, refused = 0
                 PROVE  /\ ~Fits(JumpBounds.lo + 1, Min({JumpBounds.hi, SystemLo - SystemStep + 1}))
                        /\ ~Fits(Max({JumpBounds.lo + 1, SystemHi + SystemStep}), JumpBounds.hi)
      BY DEF MissesOnlySystem
    <2>1. PICK lo, hi, below, above : /\ lo = JumpBounds.lo /\ hi = JumpBounds.hi
                                      /\ below = SystemLo - SystemStep + 1
                                      /\ above = SystemHi + SystemStep
      OBVIOUS
    <2>2. lo \in Nat /\ hi \in Int /\ below \in Int /\ above \in Int /\ fn \in Function
      BY <1>1, <2>1, BoundsAre, Sizes DEF SearchInv
    <2>3. ASSUME NEW a \in Int, Aligned(a), Room(a), a < UserTop[fn.x64], lo < a, a < hi,
                 a < below \/ a >= above
          PROVE  FALSE
      <3>1. Fitting(a)
        BY <2>1, <2>2, <2>3, Sizes DEF Fitting
      <3>2. Unseen(a)
        BY <1>1, <3>1 DEF Swept
      <3>. QED
        BY <2>1, <2>3, <3>2 DEF Unseen
    <2>4. /\ Min({hi, below}) \in {hi, below} /\ Min({hi, below}) <= hi /\ Min({hi, below}) <= below
      BY <2>2 DEF Min
    <2>5. /\ Max({lo + 1, above}) \in {lo + 1, above}
          /\ Max({lo + 1, above}) >= lo + 1 /\ Max({lo + 1, above}) >= above
      BY <2>2 DEF Max
    <2>6. ~Fits(lo + 1, Min({hi, below}))
      <3> SUFFICES ASSUME Fits(lo + 1, Min({hi, below})) PROVE FALSE
        OBVIOUS
      <3>1. PICK a \in Int : /\ Aligned(a) /\ Room(a) /\ a < UserTop[fn.x64]
                             /\ lo + 1 <= a /\ a < Min({hi, below})
        BY <2>2, FitsIs
      <3>2. lo < a /\ a < hi /\ a < below
        BY <2>2, <2>4, <3>1
      <3>. QED
        BY <2>3, <3>1, <3>2
    <2>7. ~Fits(Max({lo + 1, above}), hi)
      <3> SUFFICES ASSUME Fits(Max({lo + 1, above}), hi) PROVE FALSE
        OBVIOUS
      <3>1. PICK from \in Int : from = Max({lo + 1, above})
        BY <2>2, <2>5
      <3>2. PICK a \in Int : /\ Aligned(a) /\ Room(a) /\ a < UserTop[fn.x64]
                             /\ from <= a /\ a < hi
        BY <2>2, <3>1, FitsIs
      <3>3. lo < a /\ a >= above
        BY <2>2, <2>5, <3>1, <3>2
      <3>. QED
        BY <2>3, <3>2, <3>3
    <2>. QED
      BY <2>1, <2>6, <2>7
  <1>2. SearchInv /\ Swept => MissesOnlySystem
    BY <1>1
  <1>. QED
    BY SearchAlways, SweptBegins, SweptStep, <1>2, PTL DEF Spec

----------------------------------------------------------------------------
(* The opcode tables.                                                      *)

\* What an entry for CopyBytes has: a size, and if it is of a branch, whether the
\* offset is of one byte, which cannot be made longer, or of as many as an operand.
EntryOK(e) ==
    /\ e.size \in 1..9 /\ e.size16 \in 1..9 /\ e.mod \in 0..4 /\ e.rel \in 0..1
    /\ e.rel = 1 => /\ e.mod = 0 /\ "RAX" \notin e.flags /\ "ADDRESS" \notin e.flags
                    /\ \/ e.size = 5 /\ e.size16 \in {3, 5} /\ "NOENLARGE" \notin e.flags
                       \/ e.size = 2 /\ e.size16 = 2 /\ "NOENLARGE" \in e.flags

LEMMA EntriesAre ==
    /\ \A n \in 1..9 : EntryOK(Bytes(n)) /\ EntryOK(BytesDynamic(n))
    /\ EntryOK(BytesMod) /\ EntryOK(BytesModDynamic) /\ EntryOK(BytesMod1) /\ EntryOK(BytesModOperand)
    /\ EntryOK(Bytes3Or5) /\ EntryOK(Bytes3Or5Dynamic) /\ EntryOK(Bytes5Or7Dynamic)
    /\ \A x64 \in BOOLEAN : /\ EntryOK(Bytes1Address(x64)) /\ EntryOK(Bytes3Or5Rax(x64))
                            /\ EntryOK(Bytes3Or5Target(x64))
    /\ EntryOK(Bytes2CantJump) /\ \A n \in 0..4 : EntryOK(BytesXop(n))
    /\ EntryOK(Entry(3, 3, 2, 0, {})) /\ EntryOK(Entry(4, 4, 2, 0, {}))
  BY DEF EntryOK, Entry, Bytes, BytesDynamic, BytesMod, BytesModDynamic, BytesMod1, BytesModOperand,
         Bytes3Or5, Bytes3Or5Dynamic, Bytes5Or7Dynamic, Bytes1Address, Bytes3Or5Rax, Bytes3Or5Target,
         Bytes2CantJump, BytesXop

LEMMA EntryCopies ==
    /\ \A n : Bytes(n).copy = "CopyBytes" /\ BytesDynamic(n).copy = "CopyBytes"
    /\ BytesMod.copy = "CopyBytes" /\ BytesMod1.copy = "CopyBytes" /\ BytesModOperand.copy = "CopyBytes"
    /\ Bytes3Or5.copy = "CopyBytes" /\ Bytes5Or7Dynamic.copy = "CopyBytes"
    /\ \A x64 : /\ Bytes1Address(x64).copy = "CopyBytes" /\ Bytes3Or5Rax(x64).copy = "CopyBytes"
                /\ Bytes3Or5Target(x64).copy = "CopyBytes"
    /\ Bytes2CantJump.copy = "CopyBytes"
    /\ Entry(3, 3, 2, 0, {}).copy = "CopyBytes" /\ Entry(4, 4, 2, 0, {}).copy = "CopyBytes"
    /\ \A c : Other(c).copy = c
  BY DEF Entry, Bytes, BytesDynamic, BytesMod, BytesMod1, BytesModOperand, Bytes3Or5, Bytes5Or7Dynamic,
         Bytes1Address, Bytes3Or5Rax, Bytes3Or5Target, Bytes2CantJump, Other

\* The functions that copy an opcode, and what they are for.
OpcodeCopies == {"CopyBytes", "CopyBytesJump", "Invalid", "Copy0F", "CopyF6", "CopyF7", "CopyFF",
                 "CopyVex2", "CopyVex3", "CopyEvex", "CopyXop"}
Good(e, op) ==
    /\ e.copy = "CopyBytes" => EntryOK(e)
    /\ e.copy \in OpcodeCopies \cup PrefixCopies
    /\ e.copy = "Copy0F" => op = \h0F
    /\ e.copy = "CopyVex3" => op = \hC4
    /\ e.copy = "CopyVex2" => op = \hC5
    /\ e.copy = "CopyEvex" => op = \h62
Good0F(e) ==
    /\ e.copy = "CopyBytes" => EntryOK(e)
    /\ e.copy \in {"CopyBytes", "Copy0F78", "Copy0F00", "Copy0FB8", "Invalid"}

\* Those of them that do not go with one opcode.
AnyOpcode == {"CopyBytesJump", "Invalid", "CopyF6", "CopyF7", "CopyFF", "CopyXop"}

\* Entries that are good for any opcode, and for one.
LEMMA GoodAre ==
    /\ \A op :
        /\ \A n \in 1..9 : Good(Bytes(n), op) /\ Good(BytesDynamic(n), op)
        /\ Good(BytesMod, op) /\ Good(BytesMod1, op) /\ Good(BytesModOperand, op)
        /\ Good(Bytes3Or5, op) /\ Good(Bytes5Or7Dynamic, op) /\ Good(Bytes2CantJump, op)
        /\ \A x64 \in BOOLEAN : /\ Good(Bytes1Address(x64), op) /\ Good(Bytes3Or5Rax(x64), op)
                                /\ Good(Bytes3Or5Target(x64), op)
        /\ \A c \in PrefixCopies \cup AnyOpcode : Good(Other(c), op)
    /\ Good(Other("Copy0F"), \h0F) /\ Good(Other("CopyVex3"), \hC4)
    /\ Good(Other("CopyVex2"), \hC5) /\ Good(Other("CopyEvex"), \h62)
  <1>1. ASSUME NEW e, NEW op, EntryOK(e), e.copy = "CopyBytes" PROVE Good(e, op)
    BY <1>1 DEF Good, OpcodeCopies
  <1>2. ASSUME NEW op, NEW c \in PrefixCopies \cup AnyOpcode
        PROVE  Good(Other(c), op)
    BY <1>2, EntryCopies DEF Good, PrefixCopies, OpcodeCopies, AnyOpcode
  <1>3. /\ Good(Other("Copy0F"), \h0F) /\ Good(Other("CopyVex3"), \hC4)
        /\ Good(Other("CopyVex2"), \hC5) /\ Good(Other("CopyEvex"), \h62)
    BY EntryCopies DEF Good, OpcodeCopies
  <1>. QED
    BY <1>1, <1>2, <1>3, EntriesAre, EntryCopies

\* Those of them that the tables have.
LEMMA GoodOthers ==
    \A op : /\ Good(Other("Invalid"), op) /\ Good(Other("CopyBytesSegment"), op)
           /\ Good(Other("CopyBytesRax"), op) /\ Good(Other("Copy66"), op) /\ Good(Other("Copy67"), op)
           /\ Good(Other("CopyBytesJump"), op) /\ Good(Other("CopyXop"), op)
           /\ Good(Other("CopyBytesPrefix"), op) /\ Good(Other("CopyF2"), op) /\ Good(Other("CopyF3"), op)
           /\ Good(Other("CopyF6"), op) /\ Good(Other("CopyF7"), op) /\ Good(Other("CopyFF"), op)
  BY GoodAre DEF PrefixCopies, AnyOpcode

LEMMA LowIs ==
    ASSUME NEW x64 \in BOOLEAN, NEW op \in \h00..\h5F
    PROVE  Good(CopyTableLow(x64)[op], op)
  <1>1. op % 8 \in 0..7
    OBVIOUS
  <1>. QED
    BY <1>1, GoodAre, GoodOthers DEF CopyTableLow, Only86, Column

LEMMA MiddleIs ==
    ASSUME NEW x64 \in BOOLEAN, NEW op \in \h60..\hBF
    PROVE  Good(CopyTableMiddle(x64)[op], op)
  BY GoodAre, GoodOthers DEF CopyTableMiddle, Only86

LEMMA HighIs ==
    ASSUME NEW x64 \in BOOLEAN, NEW op \in \hC0..\hFF
    PROVE  Good(CopyTableHigh(x64)[op], op)
  BY GoodAre, GoodOthers DEF CopyTableHigh, Only86

LEMMA Low0FIs ==
    ASSUME NEW x64 \in BOOLEAN, NEW op \in \h00..\h7F
    PROVE  Good0F(CopyTable0FLow(x64)[op])
  BY EntriesAre, EntryCopies DEF CopyTable0FLow, Only86, Good0F

LEMMA High0FIs ==
    ASSUME NEW x64 \in BOOLEAN, NEW op \in \h80..\hFF
    PROVE  Good0F(CopyTable0FHigh(x64)[op])
  BY EntriesAre, EntryCopies DEF CopyTable0FHigh, Only86, Good0F

LEMMA TableIs ==
    ASSUME fn \in Function, NEW op \in 0..255
    PROVE  Good(Table[op], op) /\ Good0F(Table0F[op])
  <1>1. fn.x64 \in BOOLEAN
    BY FunctionType
  <1>2. Table[op] = IF op <= \h5F THEN CopyTableLow(fn.x64)[op]
                    ELSE IF op <= \hBF THEN CopyTableMiddle(fn.x64)[op] ELSE CopyTableHigh(fn.x64)[op]
    BY <1>1 DEF Table, CopyTables
  <1>3. Table0F[op] = IF op <= \h7F THEN CopyTable0FLow(fn.x64)[op] ELSE CopyTable0FHigh(fn.x64)[op]
    BY <1>1 DEF Table0F, CopyTables0F
  <1>4. Good(Table[op], op)
    BY <1>1, <1>2, LowIs, MiddleIs, HighIs
  <1>5. Good0F(Table0F[op])
    BY <1>1, <1>3, Low0FIs, High0FIs
  <1>. QED
    BY <1>4, <1>5

----------------------------------------------------------------------------
(* What a copy of an instruction can be.                                   *)

\* An instruction can be copied: its trampoline has been found.
Ready == fn \in Function /\ pv \in Nat /\ src \in Nat /\ at \in Int

Kinds == {"none", "dynamic", "code", "at"}

\* The copy has what the instruction has and, if it is enlarged, what it is longer by.
Copies(r) ==
    /\ r = Result(r.cells, r.length, r.target, r.extra)
    /\ r.cells \in Seq(Int) /\ r.target[1] \in Kinds
    /\ r.length \in Nat /\ r.length > 0 /\ r.extra \in {-3, 0, 2, 3, 4}
    /\ r.extra > 0 => r.length >= 2
    /\ Len(r.cells) <= r.length + (IF r.extra > 0 THEN r.extra ELSE 0)

LEMMA ResultIs ==
    ASSUME NEW cells \in Seq(Int), NEW length \in Nat, length > 0, NEW target_, target_[1] \in Kinds,
           NEW extra \in {-3, 0, 2, 3, 4}, extra > 0 => length >= 2,
           Len(cells) <= length + (IF extra > 0 THEN extra ELSE 0)
    PROVE  Copies(Result(cells, length, target_, extra))
  BY DEF Copies, Result

LEMMA ExceptType ==
    ASSUME NEW s \in Seq(Int), NEW i, NEW x \in Int
    PROVE  [s EXCEPT ![i] = x] \in Seq(Int) /\ Len([s EXCEPT ![i] = x]) = Len(s)
  <1> DEFINE t == [s EXCEPT ![i] = x]
  <1>1. Len(s) \in Nat /\ s \in [1..Len(s) -> Int]
    OBVIOUS
  <1>2. t \in [1..Len(s) -> Int]
    BY <1>1
  <1>3. DOMAIN t = 1..Len(s)
    BY <1>1
  <1> HIDE DEF t
  <1>4. t \in Seq(Int) /\ Len(t) = Len(s)
    BY <1>1, <1>2, <1>3
  <1>. QED
    BY <1>4 DEF t

LEMMA CellType ==
    ASSUME fn \in Function, NEW k \in Nat
    PROVE  Cell(k) \in Int
  <1>1. fn.code \in Seq(Int)
    BY FunctionType
  <1>2. k < Len(fn.code) => fn.code[k + 1] \in Int
    BY <1>1
  <1>. QED
    BY <1>2 DEF Cell

LEMMA CellsType ==
    ASSUME fn \in Function, NEW k \in Nat, NEW n \in Nat
    PROVE  Cells(k, n) \in Seq(Int) /\ Len(Cells(k, n)) = n /\ DOMAIN Cells(k, n) = 1..n
  <1>1. \A m \in 1..n : Cell(k + m - 1) \in Int
    BY CellType
  <1>. QED
    BY <1>1 DEF Cells

LEMMA WrapType ==
    ASSUME NEW n \in Int, NEW half \in Nat, half > 0
    PROVE  WrapTo(n, half) \in Int
  <1>1. (n + half) % (2 * half) \in Int
    OBVIOUS
  <1>. QED
    BY <1>1 DEF WrapTo

LEMMA HalfType ==
    ASSUME NEW size \in {1, 2, 4}
    PROVE  Half(size) \in Nat /\ Half(size) > 0
  BY Sizes DEF Half

LEMMA MovedNumber == ASSUME Ready PROVE Moved \in Int
  BY PlaceIs, FunctionType DEF Moved, Ready

LEMMA OffsetType ==
    ASSUME Ready, NEW old \in Int
    PROVE  NewOffset(old) \in Int
  <1>1. old - Moved \in Int
    BY MovedNumber
  <1>2. Half(4) \in Nat /\ Half(4) > 0
    BY HalfType
  <1>3. WrapTo(old - Moved, Half(4)) \in Int
    BY <1>1, <1>2, WrapType
  <1>. QED
    BY <1>1, <1>3 DEF NewOffset

LEMMA Adjusted ==
    ASSUME Ready, NEW k \in Nat, NEW length \in Nat, NEW rel \in Nat, NEW size \in {1, 2, 4}
    PROVE  /\ AdjustTarget(k, length, rel, size).offset \in Int
           /\ AdjustTarget(k, length, rel, size).extra \in {0, 4 - size}
  <1>1. Cell(k + rel) \in Int
    BY CellType DEF Ready
  <1>2. WrapTo(NewOffset(Cell(k + rel)), Half(size)) \in Int
    BY <1>1, OffsetType, HalfType, WrapType
  <1>. QED
    BY <1>2 DEF AdjustTarget

\* DetourCopyInstruction's CopyBytes, for whatever is before the opcode.
LEMMA BytesCopied ==
    ASSUME Ready, NEW e, EntryOK(e), NEW k \in Nat, NEW st
    PROVE  Copies(CopyBytes(e, k, st))
  <1> DEFINE more == IF e.mod > 0 THEN ModRm(Cell(k + e.mod)) ELSE 0
             base == IF more >= SIB /\ more < RIP /\ Cell(k + e.mod + 1) % 8 = 5 THEN 4 ELSE 0
             length == FixedSize(e, st) + (more % 16) + base
             data == fn.x64 /\ more >= RIP
             rel == IF data THEN e.mod + 1 ELSE e.rel
             size == IF data THEN 4 ELSE length - rel
             a == AdjustTarget(k, length, rel, size)
             tgt == IF "DYNAMIC" \in e.flags THEN Dynamic
                    ELSE IF e.rel > 0 THEN <<"code", a.target>> ELSE NoTarget
             extra == IF "NOENLARGE" \in e.flags THEN -a.extra ELSE a.extra
  <1>1. /\ e.size \in 1..9 /\ e.size16 \in 1..9 /\ e.mod \in 0..4 /\ e.rel \in 0..1
        /\ e.rel = 1 => /\ e.mod = 0 /\ "RAX" \notin e.flags /\ "ADDRESS" \notin e.flags
                        /\ \/ e.size = 5 /\ e.size16 \in {3, 5} /\ "NOENLARGE" \notin e.flags
                           \/ e.size = 2 /\ e.size16 = 2 /\ "NOENLARGE" \in e.flags
    BY DEF EntryOK
  <1>2. more \in {0, 1, 2, 4, 5, 17, 36} /\ (e.mod = 0 => more = 0)
    <2>1. \A c \in Int : ModRm(c) \in {0, 1, 2, 4, 5, 17, 36}
      BY DEF ModRm, SIB, RIP
    <2>2. Cell(k + e.mod) \in Int
      BY <1>1, CellType DEF Ready
    <2>. QED
      BY <1>1, <2>1, <2>2
  <1>3. /\ FixedSize(e, st) \in 1..13
        /\ e.rel = 1 => FixedSize(e, st) \in {e.size, e.size16}
    BY <1>1 DEF FixedSize
  <1> HIDE DEF more
  <1>4. base \in {0, 4} /\ (more < 16 => base = 0)
    BY <1>2 DEF SIB
  <1>5. more % 16 \in 0..5 /\ (more = 0 => more % 16 = 0) /\ (data => more = 36)
    BY <1>2 DEF RIP
  <1> HIDE DEF base
  <1>6. length \in 1..30 /\ (e.rel = 1 => length \in {e.size, e.size16})
    BY <1>1, <1>2, <1>3, <1>4, <1>5
  <1>7. rel \in 0..5 /\ (data => e.rel = 0)
    BY <1>1, <1>2, <1>5
  <1>8. rel # 0 => /\ size \in {1, 2, 4}
                   /\ size = 1 => length = 2 /\ "NOENLARGE" \in e.flags
                   /\ size = 2 => length = 3 /\ "NOENLARGE" \notin e.flags
    <2>1. CASE data
      BY <2>1
    <2>2. CASE ~data /\ e.rel = 1
      <3>1. size = length - 1 /\ length \in {e.size, e.size16}
        BY <1>6, <2>2
      <3>. QED
        BY <1>1, <2>2, <3>1
    <2>. QED
      BY <1>1, <2>1, <2>2
  <1> DEFINE cells == Cells(k, length)
  <1>9. cells \in Seq(Int) /\ Len(cells) = length
    <2>1. fn \in Function /\ length \in Nat
      BY <1>6 DEF Ready
    <2> HIDE DEF length
    <2>. QED
      BY <2>1, CellsType
  <1>10. CopyBytes(e, k, st) = IF rel = 0 THEN Result(cells, length, tgt, 0)
                               ELSE Result([cells EXCEPT ![rel + 1] = a.offset], length, tgt, extra)
    BY DEF CopyBytes, more, base
  <1>11. tgt[1] \in Kinds
    BY DEF Kinds, Dynamic, NoTarget
  <1> HIDE DEF tgt, cells, length
  <1>12. CASE rel = 0
    BY <1>6, <1>9, <1>10, <1>11, <1>12, ResultIs
  <1>13. CASE rel # 0
    <2>1. a.offset \in Int /\ a.extra \in {0, 4 - size}
      <3>1. size \in {1, 2, 4} /\ rel \in Nat /\ length \in Nat
        BY <1>6, <1>7, <1>8, <1>13
      <3> HIDE DEF size, rel
      <3>. QED
        BY <3>1, Adjusted
    <2>2. extra \in {-3, 0, 2} /\ (extra > 0 => length >= 2)
      <3> HIDE DEF a, size
      <3>. QED
        BY <1>8, <1>13, <2>1
    <2> DEFINE new == [cells EXCEPT ![rel + 1] = a.offset]
    <2>3. new \in Seq(Int) /\ Len(new) = length
      <3>1. rel \in 0..5 /\ a.offset \in Int
        BY <1>7, <2>1
      <3> HIDE DEF a, rel
      <3>. QED
        BY <1>9, <3>1, ExceptType
    <2> HIDE DEF extra, new
    <2>4. Copies(Result(new, length, tgt, extra))
      BY <1>6, <1>11, <2>2, <2>3, ResultIs
    <2>. QED
      BY <1>10, <1>13, <2>4 DEF new
  <1>. QED
    BY <1>12, <1>13

LEMMA JumpCopied ==
    ASSUME Ready, NEW k \in Nat
    PROVE  Copies(CopyBytesJump(k))
  <1> DEFINE to == <<"code", (fn.at + k + 2 + Cell(k + 1)) % Space[fn.x64]>>
             near(extra) == WrapTo(Cell(k + 1) - (Moved + extra), Half(4))
             short == <<\hE9, near(3), 0, 0, 0>>
             long == <<\h0F, \h80 + (Cell(k) % 16), near(4), 0, 0, 0>>
  <1>1. CopyBytesJump(k) = IF Cell(k) = \hEB THEN Result(short, 2, to, 3) ELSE Result(long, 2, to, 4)
    BY DEF CopyBytesJump
  <1>2. Cell(k) \in Int /\ Cell(k + 1) \in Int
    BY CellType DEF Ready
  <1>3. near(3) \in Int /\ near(4) \in Int
    <2>1. Cell(k + 1) - (Moved + 3) \in Int /\ Cell(k + 1) - (Moved + 4) \in Int
      BY <1>2, MovedNumber
    <2>2. Half(4) \in Nat /\ Half(4) > 0
      BY HalfType
    <2>. QED
      BY <2>1, <2>2, WrapType
  <1>4. to[1] \in Kinds
    BY DEF Kinds
  <1> HIDE DEF near, to
  <1>5. short \in Seq(Int) /\ Len(short) = 5
    BY <1>3
  <1>6. long \in Seq(Int) /\ Len(long) = 6
    BY <1>2, <1>3
  <1> HIDE DEF short, long
  <1>7. Copies(Result(short, 2, to, 3))
    <2> DEFINE length == 2
               extra == 3
    <2>1. extra \in {-3, 0, 2, 3, 4} /\ length \in Nat /\ length >= 2 /\ Len(short) = length + extra /\ extra > 0
      BY <1>5
    <2> HIDE DEF length, extra
    <2>2. Copies(Result(short, length, to, extra))
      BY <1>4, <1>5, <2>1, ResultIs
    <2>. QED
      BY <2>2 DEF length, extra
  <1>8. Copies(Result(long, 2, to, 4))
    <2> DEFINE length == 2
               extra == 4
    <2>1. extra \in {-3, 0, 2, 3, 4} /\ length \in Nat /\ length >= 2 /\ Len(long) = length + extra /\ extra > 0
      BY <1>6
    <2> HIDE DEF length, extra
    <2>2. Copies(Result(long, length, to, extra))
      BY <1>4, <1>6, <2>1, ResultIs
    <2>. QED
      BY <2>2 DEF length, extra
  <1>. QED
    BY <1>1, <1>7, <1>8

LEMMA InvalidCopied == Copies(Invalid)
  <1> DEFINE cells == <<>>
             length == 1
             extra == 0
  <1>1. /\ cells \in Seq(Int) /\ NoTarget[1] \in Kinds
        /\ extra \in {-3, 0, 2, 3, 4} /\ length \in Nat /\ length > 0 /\ Len(cells) <= length /\ ~(extra > 0)
    BY DEF NoTarget, Kinds
  <1> HIDE DEF cells, length, extra
  <1>2. Copies(Result(cells, length, NoTarget, extra))
    BY <1>1, ResultIs
  <1>. QED
    BY <1>2 DEF Invalid, cells, length, extra

\* What is before the opcode is copied as it is.
LEMMA AfterCopied ==
    ASSUME Ready, NEW k \in Nat, NEW n \in Nat, NEW r, Copies(r)
    PROVE  Copies(After(k, n, r))
  <1>1. After(k, n, r) = Result(Cells(k, n) \o r.cells, n + r.length, r.target, r.extra)
    <2>1. ASSUME NEW c, NEW l, NEW t, NEW x
          PROVE  After(k, n, Result(c, l, t, x)) = Result(Cells(k, n) \o c, n + l, t, x)
      <3> DEFINE cc == Cells(k, n) \o c
                 ll == n + l
      <3>1. Result(c, l, t, x).cells = c /\ Result(c, l, t, x).length = l
        BY DEF Result
      <3>2. After(k, n, Result(c, l, t, x)) = [[Result(c, l, t, x) EXCEPT !.cells = cc] EXCEPT !.length = ll]
        BY <3>1 DEF After
      <3> HIDE DEF cc, ll
      <3>3. [Result(c, l, t, x) EXCEPT !.cells = cc] = Result(cc, l, t, x)
        BY DEF Result
      <3>4. [Result(cc, l, t, x) EXCEPT !.length = ll] = Result(cc, ll, t, x)
        BY DEF Result
      <3>. QED
        BY <3>2, <3>3, <3>4 DEF cc, ll
    <2>2. r = Result(r.cells, r.length, r.target, r.extra)
      BY DEF Copies
    <2>3. After(k, n, r) = After(k, n, Result(r.cells, r.length, r.target, r.extra))
      BY <2>2
    <2>. QED
      BY <2>1, <2>3
  <1>2. Cells(k, n) \in Seq(Int) /\ Len(Cells(k, n)) = n
    BY CellsType DEF Ready
  <1>3. /\ r.cells \in Seq(Int) /\ r.target[1] \in Kinds
        /\ r.length \in Nat /\ r.length > 0 /\ r.extra \in {-3, 0, 2, 3, 4}
        /\ r.extra > 0 => r.length >= 2
        /\ Len(r.cells) <= r.length + (IF r.extra > 0 THEN r.extra ELSE 0)
    BY DEF Copies
  <1>4. Cells(k, n) \o r.cells \in Seq(Int) /\ Len(Cells(k, n) \o r.cells) = n + Len(r.cells)
    BY <1>2, <1>3
  <1> DEFINE cells == Cells(k, n) \o r.cells
             length == n + r.length
  <1>5. /\ length \in Nat /\ length > 0 /\ (r.extra > 0 => length >= 2)
        /\ Len(cells) <= length + (IF r.extra > 0 THEN r.extra ELSE 0)
    <2>1. n + r.length \in Nat /\ n + r.length > 0 /\ (r.extra > 0 => n + r.length >= 2)
      BY <1>3
    <2>2. Len(cells) <= n + r.length + (IF r.extra > 0 THEN r.extra ELSE 0)
      <3>1. Len(r.cells) \in Nat /\ Len(cells) = n + Len(r.cells)
        BY <1>3, <1>4
      <3> HIDE DEF cells
      <3>2. CASE r.extra > 0
        BY <1>3, <3>1, <3>2
      <3>3. CASE ~(r.extra > 0)
        BY <1>3, <3>1, <3>3
      <3>. QED
        BY <3>2, <3>3
    <2>. QED
      BY <2>1, <2>2
  <1>6. cells \in Seq(Int)
    BY <1>4
  <1> HIDE DEF cells, length
  <1>7. Copies(Result(cells, length, r.target, r.extra))
    BY <1>3, <1>5, <1>6, ResultIs
  <1>. QED
    BY <1>1, <1>7 DEF cells, length

LEMMA Entry0FCopied ==
    ASSUME Ready, NEW k \in Nat, Cell(k) \in 0..255, NEW st
    PROVE  Copies(Entry0F(k, st))
  <1> DEFINE e == Table0F[Cell(k)]
  <1>1. Good0F(e)
    BY TableIs DEF Ready
  <1> HIDE DEF e
  <1>2. EntryOK(Bytes(4)) /\ EntryOK(BytesMod) /\ EntryOK(BytesModDynamic) /\ EntryOK(Bytes3Or5Dynamic)
    BY EntriesAre
  <1>3. Copies(Copy0F78(k, st)) /\ Copies(Copy0F00(k, st)) /\ Copies(Copy0FB8(k, st))
    BY <1>2, BytesCopied DEF Copy0F78, Copy0F00, Copy0FB8
  <1>4. e.copy = "CopyBytes" => Copies(CopyBytes(e, k, st))
    BY <1>1, BytesCopied DEF Good0F
  <1>. QED
    BY <1>1, <1>3, <1>4, InvalidCopied DEF Entry0F, Good0F, e

LEMMA VexEvexCopied ==
    ASSUME Ready, NEW m, NEW k \in Nat, Cell(k) \in 0..255, NEW st, NEW p
    PROVE  Copies(CopyVexEvexCommon(m, k, st, p))
  <1>1. EntryOK(BytesMod) /\ EntryOK(BytesMod1)
    BY EntriesAre
  <1>. QED
    BY <1>1, BytesCopied, Entry0FCopied, InvalidCopied DEF CopyVexEvexCommon

LEMMA FFCopied ==
    ASSUME Ready, NEW k \in Nat, NEW st
    PROVE  Copies(CopyFF(k, st))
  <1> DEFINE r == CopyBytes(BytesMod, k, st)
             plain == IF fn.x64 THEN st.segment \notin {\h64, \h65} ELSE st.segment \in {0, \h2E}
             pointer == IF fn.x64 THEN fn.at + k + 6 + Cell(k + 2) ELSE Cell(k + 2)
             tgt == IF Cell(k + 1) \in {\h15, \h25} THEN (IF plain THEN <<"at", pointer>> ELSE Dynamic)
                    ELSE IF Reg(Cell(k + 1)) \in 2..5 THEN Dynamic ELSE r.target
  <1>1. Copies(r)
    BY EntriesAre, BytesCopied
  <1>2. CopyFF(k, st) = [r EXCEPT !.target = tgt]
    BY DEF CopyFF
  <1> HIDE DEF r, plain, pointer
  <1>3. tgt[1] \in Kinds
    BY <1>1 DEF Dynamic, Kinds, Copies
  <1> HIDE DEF tgt
  <1>4. [r EXCEPT !.target = tgt] = Result(r.cells, r.length, tgt, r.extra)
    BY <1>1 DEF Copies, Result
  <1>. QED
    BY <1>1, <1>2, <1>3, <1>4, ResultIs DEF Copies

\* The bytes that are looked up in a table are bytes.
LEMMA OpcodeCopied ==
    ASSUME Ready, NEW k \in Nat, \A j \in OpcodeAt(k) : Cell(j) \in 0..255, NEW st,
           Table[Cell(k)].copy \notin PrefixCopies
    PROVE  Copies(CopyOpcode(k, st))
  <1> DEFINE e == Table[Cell(k)]
  <1>1. /\ Cell(k) \in 0..255
        /\ Cell(k) = \h0F => Cell(k + 1) \in 0..255
        /\ Cell(k) = \hC4 => Cell(k + 3) \in 0..255
        /\ Cell(k) = \hC5 => Cell(k + 2) \in 0..255
        /\ Cell(k) = \h62 => Cell(k + 4) \in 0..255
    BY DEF OpcodeAt
  <1>2. Good(e, Cell(k))
    BY <1>1, TableIs DEF Ready
  <1>3. e.copy \in OpcodeCopies
    BY <1>2 DEF Good
  <1> HIDE DEF e
  <1>4. /\ EntryOK(BytesMod) /\ EntryOK(BytesMod1) /\ EntryOK(BytesModOperand)
        /\ EntryOK(BytesXop(0)) /\ EntryOK(BytesXop(1)) /\ EntryOK(BytesXop(4))
    BY EntriesAre
  <1>5. e.copy = "CopyBytes" => Copies(CopyBytes(e, k, st))
    BY <1>2, BytesCopied DEF Good
  <1>6. e.copy = "Copy0F" => Copies(Copy0F(k, st))
    <2>1. CASE Cell(k) = \h0F
      <3>1. Copies(Entry0F(k + 1, st))
        BY <1>1, <2>1, Entry0FCopied
      <3>. QED
        BY <3>1, AfterCopied DEF Copy0F
    <2>. QED
      BY <1>2, <2>1 DEF Good
  <1>7. Copies(CopyF6(k, st)) /\ Copies(CopyF7(k, st)) /\ Copies(CopyXop(k, st))
    BY <1>4, BytesCopied DEF CopyF6, CopyF7, CopyXop
  <1>8. e.copy = "CopyVex2" => Copies(CopyVex2(k, st))
    <2>1. CASE Cell(k) = \hC5
      <3>1. Copies(CopyVexCommon(1, k + 2, st))
        BY <1>1, <2>1, VexEvexCopied DEF CopyVexCommon
      <3>2. Copies(After(k, 2, CopyVexCommon(1, k + 2, st)))
        BY <3>1, AfterCopied
      <3>. QED
        BY <1>4, <3>2, BytesCopied DEF CopyVex2
    <2>. QED
      BY <1>2, <2>1 DEF Good
  <1>9. e.copy = "CopyVex3" => Copies(CopyVex3(k, st))
    <2>1. CASE Cell(k) = \hC4
      <3> DEFINE r == CopyVexCommon(Cell(k + 1) % 32, k + 3, Wide(st, Cell(k + 2)))
      <3>1. Copies(r)
        BY <1>1, <2>1, VexEvexCopied DEF CopyVexCommon
      <3> HIDE DEF r
      <3>2. Copies(After(k, 3, r))
        BY <3>1, AfterCopied
      <3>. QED
        BY <1>4, <3>2, BytesCopied DEF CopyVex3, r
    <2>. QED
      BY <1>2, <2>1 DEF Good
  <1>10. e.copy = "CopyEvex" => Copies(CopyEvex(k, st))
    <2>1. CASE Cell(k) = \h62
      <3> DEFINE r == CopyVexEvexCommon(Cell(k + 1) % 8, k + 4, Wide(st, Cell(k + 2)), Cell(k + 2) % 4)
      <3>1. Copies(r)
        BY <1>1, <2>1, VexEvexCopied
      <3> HIDE DEF r
      <3>2. Copies(After(k, 4, r))
        BY <3>1, AfterCopied
      <3>. QED
        BY <1>4, <3>2, BytesCopied, InvalidCopied DEF CopyEvex, r
    <2>. QED
      BY <1>2, <2>1 DEF Good
  <1>11. Copies(CopyBytesJump(k)) /\ Copies(CopyFF(k, st))
    BY JumpCopied, FFCopied
  <1>. QED
    BY <1>3, <1>5, <1>6, <1>7, <1>8, <1>9, <1>10, <1>11, InvalidCopied DEF CopyOpcode, OpcodeCopies, e

\* The prefixes are those before the first opcode.
LEMMA PrefixIs ==
    ASSUME NEW k \in Nat, NEW n \in 0..4,
           \A m \in 0..(n - 1) : Table[Cell(k + m)].copy \in PrefixCopies,
           Table[Cell(k + n)].copy \notin PrefixCopies
    PROVE  CopyBytesPrefix(k) = n
  <1> DEFINE P(m) == Table[Cell(k + m)].copy \in PrefixCopies
             First(i) == ~P(i) /\ \A m \in 0..(i - 1) : P(m)
  <1>1. First(n)
    OBVIOUS
  <1>2. CopyBytesPrefix(k) = CHOOSE i \in 0..4 : First(i)
    BY DEF CopyBytesPrefix
  <1> HIDE DEF P
  <1>3. ASSUME NEW i \in 0..4, First(i) PROVE i = n
    BY <1>1, <1>3
  <1> HIDE DEF First
  <1>4. (CHOOSE i \in 0..4 : First(i)) \in 0..4 /\ First(CHOOSE i \in 0..4 : First(i))
    BY <1>1
  <1>. QED
    BY <1>2, <1>3, <1>4

LEMMA InstructionCopied ==
    ASSUME Ready, Readable(src), NEW r \in DetourCopyInstruction(src)
    PROVE  Copies(r)
  <1>1. PICK n \in 0..4 :
            /\ \A m \in 0..(n - 1) : Table[Cell(src + m)].copy \in PrefixCopies
            /\ Table[Cell(src + n)].copy \notin PrefixCopies
            /\ \A j \in OpcodeAt(src + n) : Cell(j) \in 0..255
    BY DEF Readable
  <1>2. CopyBytesPrefix(src) = n
    BY <1>1, PrefixIs DEF Ready
  <1>3. PICK g : r = After(src, n, CopyOpcode(src + n, Overrides(Cells(src, n), g)))
    BY <1>2 DEF DetourCopyInstruction
  <1>4. src \in Nat /\ src + n \in Nat /\ n \in Nat
    BY DEF Ready
  <1>5. Copies(CopyOpcode(src + n, Overrides(Cells(src, n), g)))
    BY <1>1, <1>4, OpcodeCopied
  <1>. QED
    BY <1>3, <1>4, <1>5, AfterCopied

----------------------------------------------------------------------------
(* The types, and the end of rbCode.                                       *)

Alignment == [obTarget : 0..7, obTrampoline : 0..31]
Memories == [0..47 -> Int]
InUse == {"copy", "pad", "small", "break", "many", "done"}

\* Where the search is.
SearchType ==
    /\ pc \in {"search", "found", "none"} \cup InUse
    /\ pass \in 1..(Len(Passes) + 1) /\ pbTry \in Nat \cup {Null} /\ refused \in 0..fn.failures

\* Before the last instruction no more than four bytes have been copied, and short
\* jumps among them have grown to three times their size at most.
CopiedType ==
    /\ src \in 0..19 /\ at \in 0..24
    /\ pc \notin InUse => src = 0 /\ at = 0
    /\ pc = "copy" => src <= 4 /\ at <= 3 * src
AlignType ==
    /\ align \in Seq(Alignment) /\ Len(align) <= 8
    /\ pc \notin InUse => align = <<>>
    /\ pc = "copy" => Len(align) < 8
TrampType ==
    /\ tramp \in Memories
    /\ pc \in InUse => \A n \in CodeSize..47 : tramp[n] = \hCC
RestType ==
    /\ target[1] \in Kinds /\ remain \in Nat \cup {Null}
    /\ pc \in InUse => pv # Null
CopyType == CopiedType /\ AlignType /\ TrampType /\ RestType

LEMMA SearchTypeBegins == Init => SearchType
  <1> SUFFICES ASSUME Init PROVE SearchType
    OBVIOUS
  <1>1. fn \in Function /\ pc = "search" /\ pass = 1 /\ refused = 0
    BY DEF Init, SearchInit
  <1>2. SearchInv
    BY SearchBegins
  <1>3. pbTry \in Nat /\ Len(Passes) \in Nat /\ fn.failures \in Nat
    BY <1>1, <1>2, PassesAre, FunctionType DEF SearchInv, At
  <1>. QED
    BY <1>1, <1>3 DEF SearchType

LEMMA SearchTypeStep == SearchInv /\ SearchInv' /\ SearchType /\ [Next]_vars => SearchType'
  <1> SUFFICES ASSUME SearchInv, SearchInv', SearchType, [Next]_vars PROVE SearchType'
    OBVIOUS
  <1>1. fn \in Function /\ Len(Passes) \in Nat /\ fn.failures \in Nat
    BY PassesAre, FunctionType DEF SearchInv
  <1>2. fn' = fn /\ Passes' = Passes
    <2>1. fn' = fn
      BY DEF Next, Search, SkipSystem, PassOver, Allocate, Refuse, Block, Exhaust, TakeTrampoline,
             CopyInstruction, Pad, Finish, Ended, vars, searchVars
    <2>. QED
      BY <1>1, <2>1, SamePasses
  <1>3. refused' \in 0..fn.failures
    <2>1. refused \in 0..fn.failures
      BY DEF SearchType
    <2>2. refused' = refused \/ (refused < fn.failures /\ refused' = refused + 1)
      BY DEF Next, Search, SkipSystem, PassOver, Allocate, Refuse, Block, Exhaust, TakeTrampoline,
             CopyInstruction, Pad, Finish, Ended, vars, searchVars
    <2>. QED
      BY <1>1, <2>1, <2>2
  <1>4. CASE Search
    <2>1. pc = "search" /\ pass \in 1..Len(Passes) /\ pbTry \in Nat
      BY <1>4 DEF Search, SkipSystem, PassOver, Allocate, Refuse, Block, Exhaust, Searching, SearchInv, At
    <2>2. CASE pc' = "search"
      <3>1. pass' \in 1..Len(Passes) /\ pbTry' \in Nat
        BY <1>2, <2>2 DEF SearchInv, At
      <3>. QED
        BY <1>1, <1>2, <1>3, <2>2, <3>1 DEF SearchType
    <2>3. CASE pc' # "search"
      <3>1. \/ pc' = "found" /\ UNCHANGED <<pass, pbTry>>
            \/ pc' = "none" /\ pass' = pass + 1 /\ pbTry' = Null
        BY <1>4, <2>1, <2>3 DEF Search, SkipSystem, PassOver, Allocate, Refuse, Block, Exhaust, EndPass
      <3>2. pass' \in 1..(Len(Passes) + 1)
        BY <1>1, <2>1, <3>1
      <3>. QED
        BY <1>2, <1>3, <2>1, <3>1, <3>2 DEF SearchType
    <2>. QED
      BY <2>2, <2>3
  <1>5. CASE TakeTrampoline \/ CopyInstruction \/ Pad \/ Finish \/ UNCHANGED vars
    <2>1. UNCHANGED <<pass, pbTry>> /\ pc' \in {"search", "found", "none"} \cup InUse
      BY <1>5 DEF TakeTrampoline, CopyInstruction, Pad, Finish, SearchType, vars, searchVars, InUse
    <2>. QED
      BY <1>2, <1>3, <2>1 DEF SearchType
  <1>. QED
    BY <1>4, <1>5 DEF Next, Ended

LEMMA CopyTypeBegins == Init => CopyType
  <1> SUFFICES ASSUME Init PROVE CopyType
    OBVIOUS
  <1>1. /\ pc = "search" /\ tramp = [n \in 0..47 |-> 0] /\ src = 0 /\ at = 0
        /\ align = <<>> /\ target = NoTarget /\ remain = Null
    BY DEF Init, SearchInit
  <1>2. pc \notin InUse /\ pc # "copy"
    BY <1>1 DEF InUse
  <1>3. CopiedType
    BY <1>1, <1>2 DEF CopiedType
  <1>4. AlignType
    <2>1. align \in Seq(Alignment) /\ Len(align) = 0
      BY <1>1
    <2>. QED
      BY <1>1, <1>2, <2>1 DEF AlignType
  <1>5. TrampType
    BY <1>1, <1>2 DEF TrampType, Memories
  <1>6. RestType
    BY <1>1, <1>2 DEF RestType, NoTarget, Kinds
  <1>. QED
    BY <1>3, <1>4, <1>5, <1>6 DEF CopyType

LEMMA SeqIs == \A s \in Seq(Int) : Len(s) \in Nat /\ s \in [1..Len(s) -> Int]
  OBVIOUS

LEMMA AppendIs ==
    ASSUME NEW S, NEW s \in Seq(S), NEW e \in S
    PROVE  Append(s, e) \in Seq(S) /\ Len(Append(s, e)) = Len(s) + 1 /\ Len(s) \in Nat
  OBVIOUS

LEMMA ConcatIs == \A s \in Seq(Int) : \A t \in Seq(Int) : s \o t \in Seq(Int) /\ Len(s \o t) = Len(s) + Len(t)
  OBVIOUS

LEMMA Remainders == \A i \in Int : i % 8 \in 0..7 /\ i % 32 \in 0..31
  OBVIOUS

LEMMA Positions ==
    ASSUME NEW n \in Nat, NEW length \in Nat, n + length <= CodeSize
    PROVE  /\ \A k \in n..(n + length - 1) : k - n + 1 \in 1..length
           /\ \A k \in CodeSize..47 : k \in 0..47 /\ k \notin n..(n + length - 1)
  BY DEF CodeSize

LEMMA WrittenIs ==
    ASSUME NEW memory, memory \in Memories, NEW n \in Nat, NEW cells \in Seq(Int),
           n + Len(cells) <= CodeSize
    PROVE  /\ Written(memory, n, cells) \in Memories
           /\ \A k \in CodeSize..47 : Written(memory, n, cells)[k] = memory[k]
  <1> DEFINE length == Len(cells)
  <1>1. length \in Nat /\ cells \in [1..length -> Int]
    BY SeqIs, Zenon
  <1>2. /\ \A k \in n..(n + length - 1) : k - n + 1 \in 1..length
        /\ \A k \in CodeSize..47 : k \in 0..47 /\ k \notin n..(n + length - 1)
    BY <1>1, Positions, Zenon
  <1>3. Written(memory, n, cells) =
            [k \in 0..47 |-> IF k \in n..(n + length - 1) THEN cells[k - n + 1] ELSE memory[k]]
    <2>1. DOMAIN memory = 0..47
      BY Zenon DEF Memories
    <2>. QED
      BY <2>1, Zenon DEF Written
  <1> HIDE DEF length
  <1>4. \A k \in n..(n + length - 1) : cells[k - n + 1] \in Int
    BY <1>1, <1>2, Zenon
  <1>5. Written(memory, n, cells) \in Memories
    <2>1. \A k \in 0..47 : memory[k] \in Int
      BY Zenon DEF Memories
    <2>2. \A k \in 0..47 : (IF k \in n..(n + length - 1) THEN cells[k - n + 1] ELSE memory[k]) \in Int
      BY <1>4, <2>1, Zenon
    <2>. QED
      BY <1>3, <2>2, Zenon DEF Memories
  <1>6. \A k \in CodeSize..47 : Written(memory, n, cells)[k] = memory[k]
    BY <1>2, <1>3, Zenon
  <1>. QED
    BY <1>5, <1>6

LEMMA FillersAre == \A f \in Fillers : Len(f) \in 1..11
  <1> DEFINE one == <<\h66>>
             two == <<\h66, \h66>>
             three == <<\h66, \h66, \h66>>
  <1>2. Nop8 \in Seq(Int) /\ Len(Nop8) = 8
    BY DEF Nop8
  <1>3. /\ one \in Seq(Int) /\ Len(one) = 1 /\ two \in Seq(Int) /\ Len(two) = 2
        /\ three \in Seq(Int) /\ Len(three) = 3
    OBVIOUS
  <1> HIDE DEF one, two, three
  <1>4. Len(one \o Nop8) = 9 /\ Len(two \o Nop8) = 10 /\ Len(three \o Nop8) = 11
    <2>1. /\ Len(one \o Nop8) = Len(one) + Len(Nop8) /\ Len(two \o Nop8) = Len(two) + Len(Nop8)
          /\ Len(three \o Nop8) = Len(three) + Len(Nop8)
      BY <1>2, <1>3, ConcatIs, Zenon
    <2>. QED
      BY <1>2, <1>3, <2>1
  <1> DEFINE Short == {<<\h90>>, <<\hCC>>, <<\h66, \h90>>, <<\h0F, \h1F, 0>>, <<\h0F, \h1F, \h40, 0>>,
                       <<\h0F, \h1F, \h44, 0, 0>>, <<\h66, \h0F, \h1F, \h44, 0, 0>>,
                       <<\h0F, \h1F, \h80, 0, 0, 0, 0>>}
             Long == {Nop8, one \o Nop8, two \o Nop8, three \o Nop8}
  <1>5. \A f \in Short : Len(f) \in 1..11
    OBVIOUS
  <1>6. \A f \in Long : Len(f) \in {8, 9, 10, 11}
    BY <1>2, <1>4, Zenon
  <1>7. Fillers = Short \cup Long
    BY DEF Fillers, one, two, three
  <1> HIDE DEF Short, Long
  <1>. QED
    BY <1>5, <1>6, <1>7

LEMMA JumpBackIs ==
    ASSUME fn \in Function, pv \in Nat, src \in Nat, at \in Nat
    PROVE  JumpBack \in Seq(Int) /\ Len(JumpBack) \in {5, 6}
  <1>1. JumpIndirect \in Seq(Int) /\ Len(JumpIndirect) = 6
    BY DEF JumpIndirect, RemainOffset
  <1> DEFINE n == WrapTo(fn.at + src - (place + at + 5), Half(4))
  <1>2. n \in Int
    <2>1. fn.at + src - (place + at + 5) \in Int
      BY FunctionType, PlaceIs
    <2>2. Half(4) \in Nat /\ Half(4) > 0
      BY HalfType
    <2>. QED
      BY <2>1, <2>2, WrapType
  <1>3. JumpImmediate = <<\hE9, n, 0, 0, 0>>
    BY DEF JumpImmediate
  <1> HIDE DEF n
  <1>4. JumpImmediate \in Seq(Int) /\ Len(JumpImmediate) = 5
    BY <1>2, <1>3
  <1>. QED
    BY <1>1, <1>4 DEF JumpBack

\* Bytes written before the end of rbCode.
LEMMA WriteType ==
    ASSUME TrampType, pc \in InUse, at \in Nat, NEW cells \in Seq(Int), at + Len(cells) <= CodeSize,
           tramp' = Written(tramp, at, cells)
    PROVE  TrampType'
  <1>1. tramp \in Memories /\ \A n \in CodeSize..47 : tramp[n] = \hCC
    BY Zenon DEF TrampType
  <1>2. /\ Written(tramp, at, cells) \in Memories
        /\ \A n \in CodeSize..47 : Written(tramp, at, cells)[n] = tramp[n]
    BY <1>1, WrittenIs
  <1>3. tramp' \in Memories /\ \A n \in CodeSize..47 : tramp'[n] = \hCC
    BY <1>1, <1>2
  <1>. QED
    BY <1>3, Zenon DEF TrampType

LEMMA TakeType == ASSUME SearchInv, CopyType, TakeTrampoline PROVE CopyType'
  <1>1. CopiedType /\ AlignType /\ TrampType /\ RestType
    BY DEF CopyType
  <1>2. pc = "found" /\ pc \notin InUse /\ pv # Null /\ UNCHANGED <<pv, src, at, align, target, remain>>
    BY DEF TakeTrampoline, SearchInv, InUse
  <1>3. \/ pc' = "none" /\ tramp' = tramp
        \/ pc' = "copy" /\ tramp' = [n \in DOMAIN tramp |-> \hCC]
    BY DEF TakeTrampoline
  <1>4. CopiedType'
    BY <1>1, <1>2, <1>3 DEF CopiedType, InUse
  <1>5. AlignType'
    <2>1. align \in Seq(Alignment) /\ align = <<>>
      BY <1>1, <1>2 DEF AlignType
    <2>2. Len(align) = 0
      BY <2>1
    <2>. QED
      BY <1>2, <2>1, <2>2 DEF AlignType
  <1>6. TrampType'
    <2>1. tramp \in Memories /\ DOMAIN tramp = 0..47
      BY <1>1, Zenon DEF TrampType, Memories
    <2>2. CASE tramp' = tramp /\ pc' = "none"
      BY <2>1, <2>2 DEF TrampType, InUse
    <2>3. CASE tramp' = [n \in DOMAIN tramp |-> \hCC]
      <3>1. tramp' = [n \in 0..47 |-> \hCC]
        BY <2>1, <2>3
      <3>2. tramp' \in Memories /\ \A n \in 0..47 : tramp'[n] = \hCC
        BY <3>1 DEF Memories
      <3>3. \A n \in CodeSize..47 : n \in 0..47
        BY DEF CodeSize
      <3>4. \A n \in CodeSize..47 : tramp'[n] = \hCC
        BY <3>2, <3>3
      <3>. QED
        BY <3>2, <3>4, Zenon DEF TrampType
    <2>. QED
      BY <1>3, <2>2, <2>3
  <1>7. RestType'
    BY <1>1, <1>2 DEF RestType
  <1>. QED
    BY <1>4, <1>5, <1>6, <1>7 DEF CopyType

LEMMA InstructionType == ASSUME SearchInv, CopyType, Plain, CopyInstruction PROVE CopyType'
  <1>1. CopiedType /\ AlignType /\ TrampType /\ RestType
    BY DEF CopyType
  <1>2. pc = "copy" /\ pc \in InUse /\ UNCHANGED <<fn, pv, remain>>
    BY DEF CopyInstruction, InUse
  <1>3. src \in 0..4 /\ at \in 0..12 /\ at <= 3 * src
    BY <1>1, <1>2 DEF CopiedType
  <1>4. pv # Null /\ Ready
    BY <1>1, <1>2, <1>3 DEF RestType, Ready, SearchInv
  <1>5. PICK r \in DetourCopyInstruction(src) :
            /\ tramp' = Written(tramp, at, r.cells)
            /\ src' = src + r.length
            /\ at' = at + r.length + r.extra
            /\ align' = Append(align, [obTarget |-> src' % 8, obTrampoline |-> at' % 32])
            /\ target' = r.target
    BY DEF CopyInstruction
  <1>6. /\ Readable(src) /\ r.extra >= 0 /\ r.length + r.extra <= 15
        /\ src = 4 /\ at > 9 => r.length + r.extra <= 12
    BY <1>2, <1>5 DEF Plain
  <1>7. Copies(r)
    BY <1>4, <1>5, <1>6, InstructionCopied
  <1>8. /\ r.length \in 1..15 /\ r.extra \in {0, 2, 3, 4} /\ (r.extra > 0 => r.length >= 2)
    <2> DEFINE l == r.length
               x == r.extra
    <2>1. l \in Nat /\ l > 0 /\ x \in {-3, 0, 2, 3, 4} /\ (x > 0 => l >= 2)
      BY <1>7, Zenon DEF Copies
    <2>2. x >= 0 /\ l + x <= 15
      BY <1>6
    <2> HIDE DEF l, x
    <2>3. l \in 1..15 /\ x \in {0, 2, 3, 4}
      BY <2>1, <2>2
    <2>. QED
      BY <2>1, <2>3 DEF l, x
  <1>9. r.cells \in Seq(Int) /\ Len(r.cells) \in Nat /\ Len(r.cells) <= r.length + r.extra
    <2>1. r.cells \in Seq(Int) /\ Len(r.cells) <= r.length + (IF r.extra > 0 THEN r.extra ELSE 0)
      BY <1>7 DEF Copies
    <2>2. (IF r.extra > 0 THEN r.extra ELSE 0) = r.extra
      BY <1>8
    <2>. QED
      BY <2>1, <2>2, SeqIs
  <1>10. src' \in 0..19 /\ at' \in 0..24 /\ at' <= 3 * src' /\ at + Len(r.cells) <= CodeSize
    <2> DEFINE l == r.length
               x == r.extra
               c == Len(r.cells)
    <2>1. /\ l \in 1..15 /\ x \in 0..4 /\ (x > 0 => l >= 2) /\ c \in Nat /\ c <= l + x /\ l + x <= 15
          /\ src = 4 /\ at > 9 => l + x <= 12
      BY <1>6, <1>8, <1>9
    <2>2. src' = src + l /\ at' = at + l + x
      BY <1>5
    <2> HIDE DEF l, x, c
    <2>3. at + l + x <= 24
      BY <1>3, <2>1
    <2>4. at + l + x <= 3 * (src + l)
      BY <1>3, <2>1
    <2>5. src' \in 0..19 /\ at' \in 0..24 /\ at' <= 3 * src' /\ at + c <= 30
      BY <1>3, <2>1, <2>2, <2>3, <2>4
    <2>. QED
      BY <2>5 DEF CodeSize, c
  <1>11. align' \in Seq(Alignment) /\ Len(align') \in Nat /\ Len(align') <= 8
    <2> DEFINE new == [obTarget |-> src' % 8, obTrampoline |-> at' % 32]
    <2>1. new \in Alignment
      <3>1. src' % 8 \in 0..7 /\ at' % 32 \in 0..31
        <4>1. src' \in Int /\ at' \in Int
          BY <1>10
        <4>. QED
          BY <4>1, Remainders, Zenon
      <3>. QED
        BY <3>1 DEF Alignment
    <2>2. align \in Seq(Alignment) /\ Len(align) < 8
      BY <1>1, <1>2 DEF AlignType
    <2>3. align' = Append(align, new)
      BY <1>5
    <2> HIDE DEF new
    <2>4. align' \in Seq(Alignment) /\ Len(align') = Len(align) + 1 /\ Len(align) \in Nat
      BY <2>1, <2>2, <2>3, AppendIs, Zenon
    <2>. QED
      BY <2>2, <2>4
  <1>12. pc' \in {"copy", "pad"} /\ (pc' = "copy" => src' <= 4 /\ Len(align') < 8)
    <2>1. pc' = IF src' >= cbJump \/ Len(align') >= 8 \/ EndsFunction(src) THEN "pad" ELSE "copy"
      BY DEF CopyInstruction
    <2>2. src' \in 0..19 /\ Len(align') \in Nat
      BY <1>10, <1>11
    <2>3. pc' = "copy" => ~(src' >= 5) /\ ~(Len(align') >= 8)
      BY <2>1 DEF cbJump
    <2>. QED
      BY <2>1, <2>2, <2>3
  <1>13. CopiedType'
    <2>1. src' \in 0..19 /\ at' \in 0..24 /\ at' <= 3 * src'
      BY <1>10
    <2>2. pc' \in InUse
      BY <1>12 DEF InUse
    <2>. QED
      BY <1>12, <2>1, <2>2, Zenon DEF CopiedType
  <1>14. AlignType'
    <2>1. pc' \in InUse
      BY <1>12 DEF InUse
    <2>. QED
      BY <1>11, <1>12, <2>1, Zenon DEF AlignType
  <1>15. TrampType'
    <2>1. at \in Nat
      BY <1>3
    <2>. QED
      BY <1>1, <1>2, <1>5, <1>9, <1>10, <2>1, WriteType
  <1>16. RestType'
    <2>1. r.target[1] \in Kinds
      BY <1>7 DEF Copies
    <2>. QED
      BY <1>1, <1>2, <1>4, <1>5, <2>1 DEF RestType
  <1>. QED
    BY <1>13, <1>14, <1>15, <1>16 DEF CopyType

LEMMA PadType == ASSUME CopyType, Pad PROVE CopyType'
  <1>1. CopiedType /\ AlignType /\ TrampType /\ RestType
    BY DEF CopyType
  <1>2. /\ pc = "pad" /\ pc \in InUse /\ pc' \in {"pad", "small"} /\ pc' \in InUse
        /\ UNCHANGED <<pv, tramp, at, align, target, remain>>
    BY DEF Pad, InUse
  <1>3. src \in 0..4
    BY <1>1 DEF Pad, CopiedType, cbJump
  <1>4. src' \in 0..19
    <2>1. CASE FillerAt(src) = {}
      BY <1>3, <2>1 DEF Pad
    <2>2. CASE FillerAt(src) # {}
      <3> DEFINE filler == CHOOSE f \in FillerAt(src) : TRUE
      <3>1. filler \in Fillers
        BY <2>2 DEF FillerAt
      <3>2. src' = src + Len(filler)
        BY <2>2 DEF Pad
      <3> DEFINE length == Len(filler)
      <3>3. length \in 1..11
        BY <3>1, FillersAre, Zenon
      <3>4. src' = src + length
        BY <3>2
      <3> HIDE DEF filler, length
      <3>. QED
        BY <1>3, <3>3, <3>4
    <2>. QED
      BY <2>1, <2>2
  <1>5. CopiedType'
    BY <1>1, <1>2, <1>4 DEF CopiedType
  <1>6. AlignType'
    BY <1>1, <1>2, Zenon DEF AlignType
  <1>7. TrampType'
    BY <1>1, <1>2 DEF TrampType
  <1>8. RestType'
    BY <1>1, <1>2, Zenon DEF RestType
  <1>. QED
    BY <1>5, <1>6, <1>7, <1>8 DEF CopyType

LEMMA FinishType == ASSUME SearchInv, CopyType, Finish PROVE CopyType'
  <1>1. CopiedType /\ AlignType /\ TrampType /\ RestType
    BY DEF CopyType
  <1>2. /\ pc = "pad" /\ pc \in InUse /\ pc' \in {"break", "many", "done"} /\ pc' \in InUse /\ pc' # "copy"
        /\ UNCHANGED <<fn, pv, src, at, align, target>>
    BY DEF Finish, InUse
  <1>3. /\ pv \in Nat /\ src \in 0..19 /\ at \in 0..24 /\ fn \in Function /\ fn.at \in Nat
    BY <1>1, <1>2, FunctionType DEF SearchInv, CopiedType, RestType
  <1>4. CopiedType'
    BY <1>1, <1>2 DEF CopiedType
  <1>5. AlignType'
    BY <1>1, <1>2 DEF AlignType
  <1>6. CASE UNCHANGED <<tramp, remain>>
    <2>1. TrampType'
      BY <1>1, <1>2, <1>6 DEF TrampType
    <2>2. RestType'
      BY <1>1, <1>2, <1>6, Zenon DEF RestType
    <2>. QED
      BY <1>4, <1>5, <2>1, <2>2 DEF CopyType
  <1>7. CASE /\ remain' = fn.at + src
             /\ tramp' = Written(tramp, at, JumpBack \o [n \in 1..(CodeSize - at - Len(JumpBack)) |-> \hCC])
    <2> DEFINE left == CodeSize - at - Len(JumpBack)
               fill == [n \in 1..left |-> \hCC]
    <2>1. JumpBack \in Seq(Int) /\ Len(JumpBack) \in {5, 6}
      BY <1>3, JumpBackIs
    <2>2. left \in Nat /\ at + (Len(JumpBack) + left) <= CodeSize
      <3>1. \A l \in {5, 6} : 30 - at - l \in Nat /\ at + (l + (30 - at - l)) <= 30
        BY <1>3
      <3>. QED
        BY <2>1, <3>1, Zenon DEF CodeSize
    <2> HIDE DEF left
    <2>3. fill \in Seq(Int) /\ Len(fill) = left
      BY <2>2
    <2> HIDE DEF fill
    <2>4. JumpBack \o fill \in Seq(Int) /\ Len(JumpBack \o fill) = Len(JumpBack) + left
      BY <2>1, <2>3, ConcatIs, Zenon
    <2>5. at + Len(JumpBack \o fill) <= CodeSize
      BY <2>2, <2>4, Zenon
    <2>6. tramp' = Written(tramp, at, JumpBack \o fill) /\ at \in Nat
      BY <1>3, <1>7 DEF fill, left
    <2>7. TrampType'
      BY <1>1, <1>2, <2>4, <2>5, <2>6, WriteType
    <2>8. RestType'
      <3>1. remain' \in Nat
        BY <1>3, <1>7
      <3>. QED
        BY <1>1, <1>2, <3>1 DEF RestType
    <2>. QED
      BY <1>4, <1>5, <2>7, <2>8 DEF CopyType
  <1>. QED
    BY <1>6, <1>7 DEF Finish

LEMMA CopyTypeStep == SearchInv /\ CopyType /\ Plain /\ [Next]_vars => CopyType'
  <1> SUFFICES ASSUME SearchInv, CopyType, Plain, [Next]_vars PROVE CopyType'
    OBVIOUS
  <1>1. CASE Search /\ UNCHANGED copyVars
    <2>1. pc = "search" /\ pc' \in {"search", "found", "none"}
      BY <1>1 DEF Search, SkipSystem, PassOver, Allocate, Refuse, Block, Exhaust, EndPass, Searching
    <2>2. UNCHANGED <<tramp, src, at, align, target, remain>>
      BY <1>1 DEF copyVars
    <2>3. pc \notin InUse /\ pc' \notin InUse /\ pc' # "copy"
      BY <2>1 DEF InUse
    <2>. QED
      BY <2>2, <2>3, Zenon DEF CopyType, CopiedType, AlignType, TrampType, RestType
  <1>2. CASE UNCHANGED vars
    <2>1. UNCHANGED <<pc, pv, tramp, src, at, align, target, remain>>
      BY <1>2 DEF vars, searchVars, copyVars
    <2>. QED
      BY <2>1, Zenon DEF CopyType, CopiedType, AlignType, TrampType, RestType
  <1>. QED
    BY <1>1, <1>2, TakeType, InstructionType, PadType, FinishType DEF Next, Ended

LEMMA TypesAlways == Spec /\ []Plain => [](SearchInv /\ SearchType /\ CopyType)
  BY SearchBegins, SearchTypeBegins, CopyTypeBegins, SearchStep, SearchTypeStep, CopyTypeStep, PTL DEF Spec

\* The types and ranges of all that DetourAttachEx keeps of a trampoline in the
\* making, for any code that is Plain.
THEOREM CopyTypeCorrect == Spec /\ []Plain => []TypeOK
  <1>1. SearchInv /\ SearchType /\ CopyType => TypeOK
    <2> SUFFICES ASSUME SearchInv, SearchType, CopyType PROVE TypeOK
      OBVIOUS
    <2>1. fn.x64 \in BOOLEAN /\ fn.at \in Nat /\ fn.code \in Seq(Int) /\ pv \in Nat \cup {Null}
      BY FunctionType DEF SearchInv
    <2>2. CopiedType /\ AlignType /\ TrampType /\ RestType
      BY DEF CopyType
    <2>3. src \in 0..30 /\ at \in 0..47
      BY <2>2 DEF CopiedType
    <2>4. pc \in {"search", "found", "none", "copy", "pad", "small", "break", "many", "done"}
      BY DEF SearchType, InUse
    <2>. QED
      BY <2>1, <2>2, <2>3, <2>4, Zenon
      DEF TypeOK, SearchType, AlignType, TrampType, Memories, RestType, Kinds, Alignment
  <1>. QED
    BY TypesAlways, <1>1, PTL

\* DetourAttachEx and the functions that copy an instruction write nothing behind
\* rbCode, for any code that is Plain, wherever it is and its trampoline: the check
\* after the loop only sees what is copied, and not that jumps behind it have room.
THEOREM CopyFitsPlain == Spec /\ []Plain => []CopyFits
  <1>1. SearchType /\ CopyType => CopyFits
    BY Zenon DEF SearchType, CopyType, AlignType, TrampType, CopyFits
  <1>. QED
    BY TypesAlways, <1>1, PTL

\* The two checks of DetourAttachEx behind the copying, for an unusual number of
\* bytes, never fail for such code: they come after what they would prevent.
THEOREM ChecksNeverFail == Spec /\ []Plain => [](pc \notin {"break", "many"})
  <1> DEFINE Passed == pc \notin {"break", "many"}
  <1>1. Init => Passed
    BY DEF Init, SearchInit
  <1>2. CopyType /\ Passed /\ [Next]_vars => Passed'
    <2> SUFFICES ASSUME CopyType, Passed, [Next]_vars PROVE Passed'
      OBVIOUS
    <2>1. CASE Finish
      <3>1. src \in 0..19 /\ at \in 0..24
        BY DEF CopyType, CopiedType
      <3>2. ~(at > CodeSize) /\ ~(src > CodeSize - cbJump)
        BY <3>1 DEF CodeSize, cbJump
      <3>3. pc' = "done"
        BY <2>1, <3>2 DEF Finish
      <3>. QED
        BY <3>3
    <2>2. CASE ~Finish
      BY <2>2 DEF Next, Search, SkipSystem, PassOver, Allocate, Refuse, Block, Exhaust, EndPass,
                  TakeTrampoline, CopyInstruction, Pad, Ended, vars, searchVars
    <2>. QED
      BY <2>1, <2>2
  <1>. QED
    BY TypesAlways, <1>1, <1>2, PTL DEF Spec
=============================================================================
