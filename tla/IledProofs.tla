----------------------------- MODULE IledProofs -----------------------------
(***************************************************************************)
(* The geometry of Layout, for chains and framebuffers of every size, and  *)
(* the safety properties of Iled, for every configuration.                 *)
(***************************************************************************)
EXTENDS Iled, TLAPS

(***************************************************************************)
(* Division with remainder.                                                *)
(***************************************************************************)
LEMMA ProductMonotone ==
  ASSUME NEW a \in Int, NEW b \in Int, NEW n \in Nat, a <= b
  PROVE  a * n <= b * n
OBVIOUS

LEMMA Remainder ==
  ASSUME NEW a \in Int, NEW n \in Nat \ {0}
  PROVE  /\ a \div n \in Int /\ a % n \in 0..(n - 1)
         /\ a = n * (a \div n) + (a % n)
OBVIOUS

(* The quotient is the one number whose block a lies in.                   *)
LEMMA Quotient ==
  ASSUME NEW a \in Int, NEW n \in Nat \ {0}, NEW q \in Int
  PROVE  a \div n = q <=> (q * n <= a /\ a < q * n + n)
<1> DEFINE d == a \div n
           r == a % n
<1>1. d \in Int /\ r \in 0..(n - 1) /\ a = d * n + r
  BY Remainder
<1> HIDE DEF d, r
<1>2. d = q => (q * n <= a /\ a < q * n + n)
  BY <1>1
<1>3. ASSUME q * n <= a, a < q * n + n PROVE d = q
  <2>1. CASE d < q
    <3>1. (d + 1) * n <= q * n
      BY <1>1, <2>1, ProductMonotone
    <3>2. (d + 1) * n = d * n + n
      BY <1>1
    <3> QED
      BY <1>1, <1>3, <3>1, <3>2
  <2>2. CASE d > q
    <3>1. (q + 1) * n <= d * n
      BY <1>1, <2>2, ProductMonotone
    <3>2. (q + 1) * n = q * n + n
      OBVIOUS
    <3> QED
      BY <1>1, <1>3, <3>1, <3>2
  <2> QED
    BY <1>1, <2>1, <2>2
<1> QED
  BY <1>2, <1>3 DEF d

LEMMA LineAndOffset ==
  ASSUME NEW n \in Nat \ {0}, NEW q \in Int, NEW r \in 0..(n - 1)
  PROVE  (q * n + r) \div n = q /\ (q * n + r) % n = r
<1> DEFINE a == q * n + r
<1>1. a \in Int /\ q * n \in Int
  OBVIOUS
<1>2. a \div n = q
  BY <1>1, Quotient
<1>3. a = n * (a \div n) + (a % n) /\ a % n \in Int
  BY <1>1, Remainder
<1>4. n * q = q * n
  OBVIOUS
<1> QED
  BY <1>1, <1>2, <1>3, <1>4

-----------------------------------------------------------------------------
(***************************************************************************)
(* The chain.                                                              *)
(***************************************************************************)
(* A position in a line, and the line, as LedIndex takes them.             *)
LEMMA InLine ==
  ASSUME NEW n \in Nat \ {0}, NEW m \in Nat \ {0}, NEW q \in 0..(m - 1), NEW r \in 0..(n - 1)
  PROVE  q * n + r \in 0..(n * m - 1)
<1>1. q * n <= (m - 1) * n
  BY ProductMonotone
<1>2. (m - 1) * n = n * m - n
  OBVIOUS
<1>3. 0 * n <= q * n /\ 0 * n = 0 /\ q * n \in Int /\ n * m \in Int
  BY ProductMonotone
<1> QED
  BY <1>1, <1>2, <1>3

(* Every pixel of a matrix is an LED of the chain, and the position of     *)
(* that LED along the wire leads back to the pixel: no two pixels share    *)
(* one, with any corner, direction and wiring.                             *)
THEOREM LedOfPixel ==
  ASSUME NEW l \in ChainLayout, NEW w \in Nat \ {0}, NEW h \in Nat \ {0},
         NEW x \in 0..(w - 1), NEW y \in 0..(h - 1)
  PROVE  /\ LedIndex(l, x, y, w, h) \in 0..(w * h - 1)
         /\ Cell(l, LedIndex(l, x, y, w, h), w, h) = <<x, y>>
<1> DEFINE top == IF l.v_edge = "Top" THEN y ELSE h - 1 - y
           left == IF l.h_edge = "Left" THEN x ELSE w - 1 - x
           k == LedIndex(l, x, y, w, h)
<1>1. top \in 0..(h - 1) /\ left \in 0..(w - 1)
  OBVIOUS
<1>2. /\ l.axis \in {"Row", "Column"} /\ l.serpentine \in BOOLEAN
      /\ l.h_edge \in {"Left", "Right"} /\ l.v_edge \in {"Top", "Bottom"}
  BY DEF ChainLayout
<1>3. CASE l.axis = "Row"
  <2> DEFINE off == IF LineForward(l, top) THEN x ELSE w - 1 - x
  <2>1. off \in 0..(w - 1) /\ k = top * w + off
    BY <1>3 DEF LedIndex
  <2>2. k \in 0..(w * h - 1)
    BY <1>1, <2>1, InLine
  <2>3. k \div w = top /\ k % w = off
    <3> HIDE DEF k, off, top
    <3>1. top \in Int
      BY <1>1
    <3> QED
      BY <2>1, <3>1, LineAndOffset
  <2>4. Along(l.v_edge = "Top", top, h, FALSE) = y
    BY DEF Along
  <2>5. Along(l.h_edge = "Left", off, w, l.serpentine /\ top % 2 = 1) = x
    BY <1>2, <1>3 DEF Along, LineForward
  <2> HIDE DEF k, off, top
  <2>6. Cell(l, k, w, h) = <<x, y>>
    BY <1>3, <2>3, <2>4, <2>5 DEF Cell
  <2> QED
    BY <2>2, <2>6 DEF k
<1>4. CASE l.axis = "Column"
  <2> DEFINE off == IF LineForward(l, left) THEN y ELSE h - 1 - y
  <2>1. off \in 0..(h - 1) /\ k = left * h + off
    BY <1>4 DEF LedIndex
  <2>2. k \in 0..(w * h - 1)
    <3>1. k \in 0..(h * w - 1)
      BY <1>1, <2>1, InLine
    <3>2. h * w = w * h
      OBVIOUS
    <3> QED
      BY <3>1, <3>2
  <2>3. k \div h = left /\ k % h = off
    <3> HIDE DEF k, off, left
    <3>1. left \in Int
      BY <1>1
    <3> QED
      BY <2>1, <3>1, LineAndOffset
  <2>4. Along(l.h_edge = "Left", left, w, FALSE) = x
    BY DEF Along
  <2>5. Along(l.v_edge = "Top", off, h, l.serpentine /\ left % 2 = 1) = y
    BY <1>2, <1>4 DEF Along, LineForward
  <2> HIDE DEF k, off, left
  <2>6. Cell(l, k, w, h) = <<x, y>>
    BY <1>4, <2>3, <2>4, <2>5 DEF Cell
  <2> QED
    BY <2>2, <2>6 DEF k
<1> QED
  BY <1>2, <1>3, <1>4

(* And every LED of the chain is some pixel's.                             *)
THEOREM PixelOfLed ==
  ASSUME NEW l \in ChainLayout, NEW w \in Nat \ {0}, NEW h \in Nat \ {0},
         NEW k \in 0..(w * h - 1)
  PROVE  \E x \in 0..(w - 1), y \in 0..(h - 1) :
           Cell(l, k, w, h) = <<x, y>> /\ LedIndex(l, x, y, w, h) = k
<1>1. /\ l.axis \in {"Row", "Column"} /\ l.serpentine \in BOOLEAN
      /\ l.h_edge \in {"Left", "Right"} /\ l.v_edge \in {"Top", "Bottom"}
  BY DEF ChainLayout
<1>2. k \in Int /\ 0 <= k /\ w * h \in Int /\ k < w * h /\ h * w = w * h
  OBVIOUS
<1>3. ASSUME NEW n \in Nat \ {0}, NEW m \in Nat \ {0}, k < n * m
      PROVE  k \div n \in 0..(m - 1) /\ k % n \in 0..(n - 1) /\ k = (k \div n) * n + (k % n)
  <2> DEFINE q == k \div n
             r == k % n
  <2>1. q \in Int /\ r \in 0..(n - 1) /\ k = n * q + r
    BY <1>2, Remainder
  <2> HIDE DEF q, r
  <2>2. n * q = q * n /\ n * m = m * n /\ 0 * n = 0
    BY <2>1
  <2>3. q >= 0
    <3>1. CASE q <= -1
      <4>1. q * n <= (-1) * n /\ (-1) * n = -n
        BY <2>1, <3>1, ProductMonotone
      <4> QED
        BY <1>2, <2>1, <2>2, <4>1
    <3> QED
      BY <2>1, <3>1
  <2>4. q <= m - 1
    <3>1. CASE q >= m
      <4>1. m * n <= q * n
        BY <2>1, <3>1, ProductMonotone
      <4> QED
        BY <1>2, <1>3, <2>1, <2>2, <4>1
    <3> QED
      BY <2>1, <3>1
  <2> QED
    BY <2>1, <2>2, <2>3, <2>4 DEF q, r
<1>4. CASE l.axis = "Row"
  <2> DEFINE line == k \div w
             off == k % w
             x == Along(l.h_edge = "Left", off, w, l.serpentine /\ line % 2 = 1)
             y == Along(l.v_edge = "Top", line, h, FALSE)
  <2>1. line \in 0..(h - 1) /\ off \in 0..(w - 1) /\ k = line * w + off
    BY <1>2, <1>3
  <2>2. Cell(l, k, w, h) = <<x, y>>
    BY <1>4 DEF Cell
  <2> HIDE DEF line, off
  <2>3. x \in 0..(w - 1) /\ y \in 0..(h - 1)
    BY <2>1 DEF Along
  <2>4. (IF l.v_edge = "Top" THEN y ELSE h - 1 - y) = line
    BY <2>1 DEF Along
  <2>5. (IF LineForward(l, line) THEN x ELSE w - 1 - x) = off
    BY <1>1, <1>4, <2>1 DEF Along, LineForward
  <2> HIDE DEF x, y
  <2>6. LedIndex(l, x, y, w, h) = line * w + off
    BY <1>4, <2>4, <2>5 DEF LedIndex
  <2> QED
    BY <2>1, <2>2, <2>3, <2>6
<1>5. CASE l.axis = "Column"
  <2> DEFINE line == k \div h
             off == k % h
             x == Along(l.h_edge = "Left", line, w, FALSE)
             y == Along(l.v_edge = "Top", off, h, l.serpentine /\ line % 2 = 1)
  <2>1. line \in 0..(w - 1) /\ off \in 0..(h - 1) /\ k = line * h + off
    BY <1>2, <1>3
  <2>2. Cell(l, k, w, h) = <<x, y>>
    BY <1>1, <1>5 DEF Cell
  <2> HIDE DEF line, off
  <2>3. x \in 0..(w - 1) /\ y \in 0..(h - 1)
    BY <2>1 DEF Along
  <2>4. (IF l.h_edge = "Left" THEN x ELSE w - 1 - x) = line
    BY <2>1 DEF Along
  <2>5. (IF LineForward(l, line) THEN y ELSE h - 1 - y) = off
    BY <1>1, <1>5, <2>1 DEF Along, LineForward
  <2> HIDE DEF x, y
  <2>6. LedIndex(l, x, y, w, h) = line * h + off
    BY <1>5, <2>4, <2>5 DEF LedIndex
  <2> QED
    BY <2>1, <2>2, <2>3, <2>6
<1> QED
  BY <1>1, <1>4, <1>5
-----------------------------------------------------------------------------
(***************************************************************************)
(* The framebuffer and the frame.                                          *)
(***************************************************************************)
(* A driver's pixel shows the framebuffer's pixel whose scaled block,      *)
(* placed at the mapping's offset and centred if smaller, covers it; left  *)
(* of or above the framebuffer as well.                                    *)
THEOREM PixelShown ==
  ASSUME NEW size \in Nat, NEW fb \in Nat, NEW scale \in Nat \ {0}, NEW shift \in Int,
         NEW d \in Int, NEW f \in Int
  PROVE  FbAxis(d, size, fb, scale, shift) = f <=> Covers(d, f, size, fb, scale, shift)
<1> DEFINE m == Margin(size, fb, scale)
<1>1. m \in Int
  <2>1. fb * scale \in Int /\ (size - fb * scale) \in Int
    OBVIOUS
  <2> QED
    BY <2>1 DEF Margin
<1> HIDE DEF m
<1>2. (d - m) \div scale = f - shift <=> ((f - shift) * scale <= d - m /\ d - m < (f - shift) * scale + scale)
  <2>1. d - m \in Int /\ f - shift \in Int
    BY <1>1
  <2> QED
    BY <2>1, Quotient
<1>3. (d - m) \div scale \in Int
  <2>1. d - m \in Int
    BY <1>1
  <2> QED
    BY <2>1, Remainder
<1>4. FbAxis(d, size, fb, scale, shift) = shift + ((d - m) \div scale)
  BY DEF FbAxis, m
<1>5. Covers(d, f, size, fb, scale, shift) <=>
        (m + (f - shift) * scale <= d /\ d <= m + (f - shift) * scale + scale - 1)
  BY <1>1 DEF Covers, m
<1>6. (f - shift) * scale \in Int
  OBVIOUS
<1> QED
  BY <1>1, <1>2, <1>3, <1>4, <1>5, <1>6

(* A pixel inside the framebuffer is a bit of its buffer.                  *)
LEMMA PixelBit ==
  ASSUME NEW w \in Nat \ {0}, NEW h \in Nat \ {0}, NEW x \in 0..(w - 1), NEW y \in 0..(h - 1)
  PROVE  Bit(x, y, w) \in 0..(w * h - 1) /\ Bit(x, y, w) < 8 * BufferLen(w, h)
<1>1. Bit(x, y, w) \in 0..(w * h - 1)
  BY InLine DEF Bit
<1>2. w * h \in Nat
  OBVIOUS
<1>3. ASSUME NEW n \in Nat PROVE n <= 8 * ((n + 7) \div 8)
  OBVIOUS
<1> QED
  BY <1>1, <1>2, <1>3 DEF BufferLen

(* A quotient grows with its dividend and shrinks with its divisor.        *)
LEMMA QuotientMonotone ==
  ASSUME NEW a \in Nat, NEW b \in Nat, a <= b, NEW c \in Nat \ {0}, NEW d \in Nat \ {0}, d <= c
  PROVE  a \div c \in Nat /\ a \div c <= b \div d
<1> DEFINE q == a \div c
           s == b \div d
<1>1. q \in Int /\ q * c <= a /\ a < q * c + c
  BY Remainder, Quotient
<1>2. s \in Int /\ b < s * d + d
  BY Remainder, Quotient
<1> HIDE DEF q, s
<1>3. q >= 0
  <2>1. CASE q <= -1
    <3>1. q * c <= (-1) * c /\ (-1) * c = -c
      BY <1>1, <2>1, ProductMonotone
    <3> QED
      BY <1>1, <3>1
  <2> QED
    BY <1>1, <2>1
<1>4. q <= s
  <2>1. CASE q >= s + 1
    <3>1. (s + 1) * d <= q * d /\ (s + 1) * d = s * d + d /\ q * d \in Int
      BY <1>1, <1>2, <2>1, ProductMonotone
    <3>2. d * q <= c * q /\ d * q = q * d /\ c * q = q * c
      BY <1>1, <1>3, ProductMonotone
    <3> QED
      BY <1>1, <1>2, <3>1, <3>2
  <2> QED
    BY <1>1, <1>2, <2>1
<1> QED
  BY <1>1, <1>3, <1>4 DEF q, s

LEMMA ProductsMonotone ==
  ASSUME NEW a \in Nat, NEW b \in Nat, NEW c \in Nat, NEW d \in Nat, a <= b, c <= d
  PROVE  a * c \in Nat /\ b * d \in Nat /\ a * c <= b * d
<1>1. a * c <= b * c
  BY ProductMonotone
<1>2. c * b <= d * b /\ c * b = b * c /\ d * b = b * d
  BY ProductMonotone
<1> QED
  BY <1>1, <1>2

(* What is rounded up is enough.                                           *)
LEMMA RoundedUp ==
  ASSUME NEW a \in Nat, NEW n \in Nat \ {0}
  PROVE  CeilDiv(a, n) \in Nat /\ a <= CeilDiv(a, n) * n
<1> DEFINE q == (a + n - 1) \div n
<1>1. a + n - 1 \in Nat
  OBVIOUS
<1>2. q \in Nat
  BY <1>1, QuotientMonotone
<1>3. a + n - 1 < q * n + n
  BY <1>1, <1>2, Quotient
<1>4. q * n \in Nat
  BY <1>2
<1> QED
  BY <1>2, <1>3, <1>4 DEF CeilDiv

(* The frame every accepted configuration is sent in is long enough for    *)
(* its LEDs and the pause after them: no frame is cut off (iled.rs:24-32). *)
THEOREM FrameFits ==
  ASSUME NEW w \in Nat, NEW h \in Nat, w * h <= MAX_LEDS,
         NEW bits \in Nat, bits <= MAX_TOTAL_CHANNEL_BITS,
         NEW resolution \in Nat, resolution <= MAX_RESOLUTION,
         NEW pattern_ns \in Nat, pattern_ns >= MIN_PATTERN_NS,
         NEW reset_ns \in Nat, reset_ns <= MAX_RESET_NS
  PROVE  (w * h) * BytesPerLed(bits, resolution) + ResetBytes(resolution, pattern_ns, reset_ns) <= FRAME_LEN
<1>1. /\ MAX_LEDS \in Nat /\ MAX_TOTAL_CHANNEL_BITS \in Nat /\ MAX_RESOLUTION \in Nat
      /\ MAX_RESET_NS \in Nat /\ MIN_PATTERN_NS \in Nat \ {0} /\ pattern_ns \in Nat \ {0}
  BY SMT DEF MAX_LEDS, MAX_TOTAL_CHANNEL_BITS, MAX_RESOLUTION, MAX_RESET_NS, MIN_PATTERN_NS
<1>2. NS \in Nat \ {0} /\ I2S_DMA_BUFFER_MAX \in Nat \ {0}
  BY SMT DEF NS, I2S_DMA_BUFFER_MAX
<1>3. BytesPerLed(bits, resolution) \in Nat /\ BytesPerLed(bits, resolution) <= MAX_BYTES_PER_LED
      /\ MAX_BYTES_PER_LED \in Nat
  <2> DEFINE a == bits * resolution
             b == MAX_TOTAL_CHANNEL_BITS * MAX_RESOLUTION
  <2>1. a \in Nat /\ b \in Nat /\ a <= b
    BY <1>1, ProductsMonotone
  <2> HIDE DEF a, b
  <2>2. a \div 8 \in Nat /\ a \div 8 <= (b + 7) \div 8 /\ (b + 7) \div 8 \in Nat
    BY SMT, <2>1
  <2> QED
    BY <2>2 DEF BytesPerLed, MAX_BYTES_PER_LED, a, b
<1>4. BitRate(resolution, pattern_ns) \in Nat /\ MAX_BIT_RATE_HZ \in Nat
      /\ BitRate(resolution, pattern_ns) <= MAX_BIT_RATE_HZ
  <2>1. /\ resolution * NS \in Nat /\ MAX_RESOLUTION * NS \in Nat
        /\ resolution * NS <= MAX_RESOLUTION * NS
    BY <1>1, <1>2, ProductsMonotone
  <2> QED
    BY <1>1, <2>1, QuotientMonotone DEF BitRate, MAX_BIT_RATE_HZ
<1>5. ResetBytes(resolution, pattern_ns, reset_ns) \in Nat /\ MAX_RESET_BYTES \in Nat
      /\ ResetBytes(resolution, pattern_ns, reset_ns) <= MAX_RESET_BYTES
  <2> DEFINE a == BitRate(resolution, pattern_ns) * reset_ns
             b == MAX_BIT_RATE_HZ * MAX_RESET_NS
  <2>1. a \in Nat /\ b \in Nat /\ a <= b
    BY <1>1, <1>4, ProductsMonotone
  <2> HIDE DEF a, b
  <2>2. a \div NS \in Nat /\ b \div NS \in Nat /\ a \div NS <= b \div NS
    <3>1. NS \in Nat /\ NS <= NS /\ b <= b
      BY <1>2, <2>1
    <3> QED
      BY <1>2, <2>1, <3>1, QuotientMonotone
  <2>3. 8 \in Nat \ {0}
    OBVIOUS
  <2>4. (a \div NS) \div 8 \in Nat /\ (b \div NS) \div 8 \in Nat /\ (a \div NS) \div 8 <= (b \div NS) \div 8
    BY <2>2, <2>3, QuotientMonotone
  <2> QED
    BY <2>4 DEF ResetBytes, MAX_RESET_BYTES, a, b
<1>6. (w * h) * BytesPerLed(bits, resolution) \in Nat /\ MAX_LEDS * MAX_BYTES_PER_LED \in Nat
      /\ (w * h) * BytesPerLed(bits, resolution) <= MAX_LEDS * MAX_BYTES_PER_LED
  <2>1. w * h \in Nat
    OBVIOUS
  <2> QED
    BY <1>1, <1>3, <2>1, ProductsMonotone
<1>7. MIN_FRAME_LEN \in Nat /\ FRAME_LEN \in Nat /\ MIN_FRAME_LEN <= FRAME_LEN
  <2> DEFINE K == DMA_BUFFERS_PER_FRAME
             per == CeilDiv(MIN_FRAME_LEN, K)
  <2>1. MIN_FRAME_LEN \in Nat /\ MIN_FRAME_LEN > 0
    <3>1. MAX_LEDS * MAX_BYTES_PER_LED > 0
      BY SMT DEF MAX_LEDS, MAX_BYTES_PER_LED, MAX_TOTAL_CHANNEL_BITS, MAX_RESOLUTION
    <3> QED
      BY <1>5, <1>6, <3>1 DEF MIN_FRAME_LEN
  <2>2. K \in Nat /\ MIN_FRAME_LEN <= K * I2S_DMA_BUFFER_MAX
    BY <1>2, <2>1, RoundedUp DEF DMA_BUFFERS_PER_FRAME
  <2>3. K \in Nat \ {0}
    <3> HIDE DEF K
    <3>1. K = 0 => K * I2S_DMA_BUFFER_MAX = 0
      BY <1>2
    <3> QED
      BY <2>1, <2>2, <3>1
  <2> HIDE DEF K
  <2>4. per \in Nat /\ MIN_FRAME_LEN <= per * K
    BY <2>1, <2>3, RoundedUp
  <2> HIDE DEF per
  <2>5. DMA_BUFFER_LEN \in Nat /\ per <= DMA_BUFFER_LEN
    <3>1. CeilDiv(per, 4) \in Nat /\ per <= CeilDiv(per, 4) * 4
      BY <2>4, RoundedUp
    <3> QED
      BY <3>1 DEF DMA_BUFFER_LEN, per, K
  <2>6. per * K \in Nat /\ per * K <= DMA_BUFFER_LEN * K /\ DMA_BUFFER_LEN * K \in Nat
    BY <2>3, <2>4, <2>5, ProductsMonotone
  <2> QED
    BY <2>1, <2>4, <2>6 DEF FRAME_LEN, K
<1>8. MIN_FRAME_LEN = MAX_LEDS * MAX_BYTES_PER_LED + MAX_RESET_BYTES
  BY DEF MIN_FRAME_LEN
<1> QED
  BY <1>5, <1>6, <1>7, <1>8

-----------------------------------------------------------------------------
(***************************************************************************)
(* The task.                                                               *)
(***************************************************************************)
LEMMA ConfigsType ==
  /\ DefaultIled \in Configs
  /\ \A c \in Configs : c \in Config /\ c.timing \in Timings
  /\ \A r \in Requests : Accepted(r) => Parsed(r) \in Configs
<1>1. \A r \in Requests : Parsed(r) \in Config
  <2> SUFFICES ASSUME NEW r \in Requests PROVE Parsed(r) \in Config
    OBVIOUS
  <2>1. r \in Request
    BY RequestsAssumption
  <2> QED
    BY <2>1 DEF Parsed, Dimension, Request, Config
<1> QED
  BY <1>1, DefaultAssumption DEF Configs, Config

LEMMA NoneType ==
  None \notin Timings /\ None \notin Configs /\ None \notin NodemConfigs
BY ConfigsType, DefaultAssumption

LEMMA DrawnBits ==
  ASSUME NEW n \in NodemConfigs, NEW c \in Contents
  PROVE  Draw(c, n.width, n.height) \subseteq {b \in Nat : b < 8 * BufferLen(n.width, n.height)}
<1> SUFFICES ASSUME NEW p \in Drawn(c, n.width, n.height)
             PROVE  Bit(p[1], p[2], n.width) \in Nat
                    /\ Bit(p[1], p[2], n.width) < 8 * BufferLen(n.width, n.height)
  BY DEF Draw
<1> DEFINE w == n.width
           h == n.height
           x == p[1]
           y == p[2]
<1>1. w \in Nat \ {0} /\ h \in Nat \ {0}
  BY NodemAssumption DEF NodemConfig
<1>2. x \in 0..(w - 1) /\ y \in 0..(h - 1)
  BY DrawnAssumption
<1> HIDE DEF w, h, x, y
<1>3. Bit(x, y, w) \in 0..(w * h - 1) /\ Bit(x, y, w) < 8 * BufferLen(w, h)
  BY <1>1, <1>2, PixelBit
<1>4. w * h \in Int
  BY <1>1
<1>5. Bit(x, y, w) \in Nat
  BY <1>3, <1>4
<1> QED
  BY <1>3, <1>5 DEF w, h, x, y

(* The conjuncts of the invariant, by the part of the state they are about.*)
TaskInv ==
  /\ tpc \in {"boot", "timer", "blank", "frame", "ended"}
  /\ config \in Configs /\ enabled \in BOOLEAN
  /\ driver \in Timings \cup {None} /\ (driver = None <=> tpc \in {"boot", "ended"})
  /\ (tpc \in {"blank", "frame"} => frame \in [Leds(config) -> BOOLEAN])
  /\ RateMatches

DisplayInv ==
  /\ nodem_config \in NodemConfigs /\ dirty \in BOOLEAN /\ content \in Contents
  /\ surface = <<nodem_config.width, nodem_config.height>>
  /\ buffer \subseteq {b \in Nat : b < 8 * BufferLen(nodem_config.width, nodem_config.height)}

StoreInv ==
  /\ iled_config \in Configs \cup {None}
  /\ stored \in Configs \cup {None, Malformed} /\ storedNodem \in NodemConfigs
  /\ Survives

LedInv == leds \in [Led -> BOOLEAN]
BoundInv == faults \in 0..MaxFaults /\ commands \in 0..MaxCommands /\ reboots \in 0..MaxReboots

IInv == TaskInv /\ DisplayInv /\ StoreInv /\ LedInv /\ BoundInv

LEMMA InitIInv == Init => IInv
<1> SUFFICES ASSUME Init PROVE IInv
  OBVIOUS
<1>1. TaskInv
  BY ConfigsType DEF Init, TaskInv, RateMatches
<1>2. DisplayInv
  BY NodemAssumption DEF Init, DisplayInv
<1>3. StoreInv
  BY ConfigsType, NodemAssumption DEF Init, StoreInv, Survives
<1>4. LedInv /\ BoundInv
  BY BoundsAssumption DEF Init, LedInv, BoundInv
<1> QED
  BY <1>1, <1>2, <1>3, <1>4 DEF IInv

LEMMA LatchedType ==
  ASSUME TaskInv, LedInv, tpc \in {"blank", "frame"}, NEW n \in Int
  PROVE  Latched(n) \in [Led -> BOOLEAN]
<1>1. \A k \in DOMAIN frame : frame[k] \in BOOLEAN
  BY DEF TaskInv
<1> QED
  BY <1>1 DEF Latched, LedInv

LEMMA RenderedType ==
  ASSUME NEW c, NEW n, NEW phase
  PROVE  Rendered(c, n, phase) \in [Leds(c) -> BOOLEAN]
BY DEF Rendered

(* A fault, a command and a restart are counted within their bounds.       *)
LEMMA BoundsKept ==
  ASSUME BoundInv
  PROVE  /\ Fault => faults' \in 0..MaxFaults
         /\ TwoFaults => faults' \in 0..MaxFaults
         /\ Commanded => commands' \in 0..MaxCommands
BY BoundsAssumption DEF BoundInv, Fault, TwoFaults, Commanded

(* What the task starts with is stored, unless it is the default. *)
LEMMA LoadKeeps ==
  ASSUME StoreInv, NEW c \in Configs, Load(c) \/ LoadFailed(c)
  PROVE  stored' \in Configs \cup {None, Malformed} /\ (c # DefaultIled => stored' = c)
BY DEF StoreInv, Load, LoadFailed

LEMMA BootKeeps ==
  ASSUME IInv, Boot
  PROVE  IInv'
<1>1. TaskInv /\ DisplayInv /\ StoreInv /\ LedInv /\ BoundInv
  BY DEF IInv
<1>2. PICK c \in Configs :
        /\ (Load(c) /\ UNCHANGED faults) \/ (LoadFailed(c) /\ Fault)
        /\ config' = c /\ iled_config' = c /\ driver' = c.timing
  BY DEF Boot
<1>3. tpc' = "timer" /\ UNCHANGED <<nodem_config, dirty, buffer, surface, content, enabled, frame, leds,
                                    storedNodem, commands, reboots>>
  BY DEF Boot
<1>4. /\ stored' \in Configs \cup {None, Malformed} /\ (c # DefaultIled => stored' = c)
      /\ faults' \in 0..MaxFaults
  BY <1>1, <1>2, LoadKeeps, BoundsKept DEF BoundInv
<1>5. TaskInv'
  BY <1>1, <1>2, <1>3, ConfigsType, NoneType DEF TaskInv, RateMatches
<1>6. StoreInv'
  BY <1>1, <1>2, <1>3, <1>4 DEF StoreInv, Survives
<1> QED
  BY <1>1, <1>3, <1>4, <1>5, <1>6 DEF IInv, DisplayInv, LedInv, BoundInv

LEMMA BootFailedKeeps ==
  ASSUME IInv, BootFailed
  PROVE  IInv'
<1>1. TaskInv /\ DisplayInv /\ StoreInv /\ LedInv /\ BoundInv
  BY DEF IInv
<1>2. PICK c \in Configs :
        /\ (Load(c) /\ Fault) \/ (LoadFailed(c) /\ TwoFaults)
        /\ config' = c /\ iled_config' = c
  BY DEF BootFailed
<1>3. tpc = "boot" /\ tpc' = "ended"
      /\ UNCHANGED <<nodem_config, dirty, buffer, surface, content, enabled, driver, frame, leds,
                     storedNodem, commands, reboots>>
  BY DEF BootFailed
<1>4. TaskInv'
  BY <1>1, <1>2, <1>3 DEF TaskInv, RateMatches
<1>5. /\ stored' \in Configs \cup {None, Malformed} /\ (c # DefaultIled => stored' = c)
      /\ faults' \in 0..MaxFaults
  BY <1>1, <1>2, LoadKeeps, BoundsKept
<1>6. StoreInv'
  BY <1>1, <1>2, <1>3, <1>5 DEF StoreInv, Survives
<1> QED
  BY <1>1, <1>3, <1>4, <1>5, <1>6 DEF IInv, DisplayInv, LedInv, BoundInv

LEMMA IledTaskKeeps ==
  ASSUME IInv, IledTask
  PROVE  IInv'
<1>1. TaskInv /\ DisplayInv /\ StoreInv /\ LedInv /\ BoundInv
  BY DEF IInv
<1>2. ASSUME UNCHANGED <<global, content, nvs, bounds, leds>>
      PROVE  DisplayInv' /\ (tpc # "boot" => StoreInv') /\ LedInv' /\ BoundInv'
  <2>1. DisplayInv' /\ LedInv' /\ BoundInv'
    BY <1>1, <1>2 DEF global, bounds, DisplayInv, LedInv, BoundInv
  <2>2. tpc # "boot" => StoreInv'
    BY <1>1, <1>2 DEF global, nvs, StoreInv, Survives
  <2> QED
    BY <2>1, <2>2
<1>3. CASE SwitchOff
  <2>1. frame' \in [Leds(config) -> BOOLEAN] /\ tpc' = "blank" /\ tpc = "timer" /\ UNCHANGED <<config, enabled, driver>>
    BY <1>3 DEF SwitchOff, Blank
  <2>2. TaskInv'
    BY <1>1, <2>1 DEF TaskInv, RateMatches
  <2>3. UNCHANGED <<global, content, nvs, bounds, leds>>
    BY <1>3 DEF SwitchOff
  <2> QED
    BY <1>2, <2>1, <2>2, <2>3 DEF IInv
<1>4. CASE StayOff
  <2>1. TaskInv' /\ LedInv' /\ BoundInv'
    BY <1>1, <1>4 DEF StayOff, task, bounds, TaskInv, RateMatches, LedInv, BoundInv
  <2>2. DisplayInv' /\ StoreInv'
    BY <1>1, <1>4 DEF StayOff, nvs, task, DisplayInv, StoreInv, Survives
  <2> QED
    BY <2>1, <2>2 DEF IInv
<1>5. CASE Redraw
  <2>1. PICK phase \in 0..1 : frame' = Rendered(iled_config, nodem_config, phase)
    BY <1>5 DEF Redraw
  <2>2. /\ iled_config \in Configs /\ config' = iled_config /\ enabled' = TRUE
        /\ tpc = "timer" /\ tpc' = "frame" /\ Rebuilt
    BY <1>1, <1>5 DEF Redraw, Wanted, StoreInv
  <2>3. driver' = config'.timing
    BY <1>1, <2>2 DEF Rebuilt, TaskInv, RateMatches
  <2>4. TaskInv'
    BY <2>1, <2>2, <2>3, RenderedType, ConfigsType, NoneType DEF TaskInv, RateMatches
  <2>5. UNCHANGED <<global, content, nvs, bounds, leds>>
    BY <1>5 DEF Redraw
  <2> QED
    BY <1>2, <2>2, <2>4, <2>5 DEF IInv
<1>6. CASE RebuildFailed
  <2>1. iled_config \in Configs /\ config' = iled_config /\ enabled' = TRUE /\ driver' = None /\ tpc' = "ended"
    BY <1>1, <1>6 DEF RebuildFailed, Wanted, StoreInv
  <2>2. TaskInv'
    BY <2>1 DEF TaskInv, RateMatches
  <2>3. DisplayInv' /\ StoreInv' /\ LedInv' /\ BoundInv'
    BY <1>1, <1>6, BoundsKept
       DEF RebuildFailed, global, nvs, DisplayInv, StoreInv, Survives, LedInv, BoundInv
  <2> QED
    BY <2>2, <2>3 DEF IInv
<1>7. ASSUME NEW n \in Int, tpc \in {"blank", "frame"}, Written(n), faults' \in 0..MaxFaults
      PROVE  IInv'
  <2>1. LedInv'
    BY <1>1, <1>7, LatchedType DEF Written, LedInv
  <2>2. TaskInv'
    BY <1>1, <1>7 DEF Written, TaskInv, RateMatches
  <2>3. DisplayInv' /\ StoreInv' /\ BoundInv'
    BY <1>1, <1>7 DEF Written, nvs, DisplayInv, StoreInv, Survives, BoundInv
  <2> QED
    BY <2>1, <2>2, <2>3 DEF IInv
<1>8. CASE WriteOk
  BY <1>1, <1>7, <1>8, BoundsAssumption DEF WriteOk, BoundInv
<1>9. CASE WriteFailed
  BY <1>1, <1>7, <1>9, BoundsKept DEF WriteFailed
<1> QED
  BY <1>3, <1>4, <1>5, <1>6, <1>8, <1>9, BootKeeps, BootFailedKeeps DEF IledTask

LEMMA ResizeKeeps ==
  ASSUME DisplayInv, NEW n \in NodemConfigs, Resize(n), UNCHANGED content
  PROVE  DisplayInv' /\ nodem_config' = n
<1>1. CASE SameGeometry(n)
  BY <1>1 DEF DisplayInv, Resize, SameGeometry
<1>2. CASE ~SameGeometry(n)
  BY <1>2 DEF DisplayInv, Resize
<1> QED
  BY <1>1, <1>2

LEMMA CommandKeeps ==
  ASSUME IInv, IledCommand \/ IledOff \/ NodemCommand \/ Factory
  PROVE  IInv'
<1>1. TaskInv /\ DisplayInv /\ StoreInv /\ LedInv /\ BoundInv
  BY DEF IInv
<1>2. Commanded /\ UNCHANGED <<task, leds, reboots, content>>
  BY DEF IledCommand, IledOff, NodemCommand, Factory
<1>3. TaskInv' /\ LedInv'
  BY <1>1, <1>2 DEF task, TaskInv, RateMatches, LedInv
<1>4. ASSUME faults' \in 0..MaxFaults PROVE BoundInv'
  BY <1>1, <1>2, <1>4, BoundsKept DEF BoundInv
<1>5. CASE IledCommand
  <2>1. PICK r \in Requests : Accepted(r) /\ Stored(Parsed(r)) /\ iled_config' = Parsed(r)
    BY <1>5 DEF IledCommand
  <2>2. UNCHANGED <<nodem_config, dirty, buffer, surface, content, storedNodem>>
    BY <1>5 DEF IledCommand
  <2>3. Parsed(r) \in Configs /\ stored' = Parsed(r) /\ faults' = faults
    BY <2>1, ConfigsType DEF Stored
  <2>4. DisplayInv' /\ StoreInv'
    BY <1>1, <2>1, <2>2, <2>3 DEF DisplayInv, StoreInv, Survives
  <2> QED
    BY <1>1, <1>3, <1>4, <2>3, <2>4 DEF IInv, BoundInv
<1>6. CASE IledOff
  <2>1. stored' \in Configs \cup {None, Malformed} /\ faults' \in 0..MaxFaults
    BY <1>1, <1>6, BoundsKept DEF IledOff, StoreInv, BoundInv
  <2>2. iled_config' = None /\ UNCHANGED <<nodem_config, dirty, buffer, surface, content, storedNodem>>
    BY <1>6 DEF IledOff
  <2>3. DisplayInv' /\ StoreInv'
    BY <1>1, <2>1, <2>2 DEF DisplayInv, StoreInv, Survives
  <2> QED
    BY <1>3, <1>4, <2>1, <2>3 DEF IInv
<1>7. CASE NodemCommand
  <2>1. PICK n \in NodemConfigs : storedNodem' = n /\ Resize(n)
    BY <1>7 DEF NodemCommand
  <2>2. DisplayInv' /\ nodem_config' = n
    BY <1>1, <1>2, <2>1, ResizeKeeps
  <2>3. UNCHANGED <<iled_config, stored, faults, tpc>>
    BY <1>7 DEF NodemCommand, task
  <2>4. StoreInv'
    BY <1>1, <2>1, <2>2, <2>3 DEF StoreInv, Survives
  <2> QED
    BY <1>1, <1>3, <1>4, <2>2, <2>3, <2>4 DEF IInv, BoundInv
<1>8. CASE Factory
  <2>1. Resize(DefaultNodem) /\ iled_config' = DefaultIled /\ DefaultNodem \in NodemConfigs
    BY <1>8, NodemAssumption DEF Factory
  <2>2. DisplayInv' /\ nodem_config' = DefaultNodem
    BY <1>1, <1>2, <2>1, ResizeKeeps
  <2>3. stored' \in {DefaultIled, stored} /\ storedNodem' \in {DefaultNodem, storedNodem} /\ faults' \in 0..MaxFaults
    <3>1. faults \in 0..MaxFaults
      BY <1>1 DEF BoundInv
    <3>2. CASE UNCHANGED nvs /\ TwoFaults
      BY <1>1, <3>2, BoundsKept DEF nvs
    <3>3. CASE stored' = DefaultIled /\ storedNodem' = DefaultNodem /\ UNCHANGED faults
      BY <3>1, <3>3
    <3>4. CASE stored' = DefaultIled /\ UNCHANGED storedNodem /\ Fault
      BY <1>1, <3>4, BoundsKept
    <3>5. CASE storedNodem' = DefaultNodem /\ UNCHANGED stored /\ Fault
      BY <1>1, <3>5, BoundsKept
    <3> QED
      BY <1>8, <3>2, <3>3, <3>4, <3>5 DEF Factory
  <2>4. StoreInv'
    BY <1>1, <2>1, <2>2, <2>3, ConfigsType DEF StoreInv, Survives
  <2> QED
    BY <1>3, <1>4, <2>2, <2>3, <2>4 DEF IInv
<1> QED
  BY <1>5, <1>6, <1>7, <1>8

LEMMA FrameKeeps ==
  ASSUME IInv, Frame
  PROVE  IInv'
<1>1. TaskInv /\ DisplayInv /\ StoreInv /\ LedInv /\ BoundInv
  BY DEF IInv
<1>2. TaskInv' /\ StoreInv' /\ LedInv' /\ BoundInv'
  BY <1>1 DEF Frame, task, nvs, bounds, TaskInv, RateMatches, StoreInv, Survives, LedInv, BoundInv
<1>3. /\ content' \in Contents /\ dirty' = TRUE /\ UNCHANGED <<nodem_config, surface>>
      /\ buffer' = Draw(content', nodem_config.width, nodem_config.height)
  BY <1>1 DEF Frame, MarkDirty, DisplayInv
<1>4. DisplayInv'
  BY <1>1, <1>3, DrawnBits DEF DisplayInv
<1> QED
  BY <1>2, <1>4 DEF IInv

LEMMA RebootKeeps ==
  ASSUME IInv, Reboot
  PROVE  IInv'
<1>1. TaskInv /\ DisplayInv /\ StoreInv /\ LedInv /\ BoundInv
  BY DEF IInv
<1>2. PICK n \in NodemConfigs :
        Created(n) /\ faults' \in 0..MaxFaults /\ storedNodem' \in NodemConfigs
        /\ (n = storedNodem' \/ n = DefaultNodem)
  BY <1>1, NodemAssumption, BoundsKept DEF Reboot, StoreInv, BoundInv
<1>3. /\ iled_config' = DefaultIled /\ config' = DefaultIled /\ enabled' = TRUE
      /\ tpc' = "boot" /\ driver' = None /\ UNCHANGED <<content, stored, commands>>
      /\ reboots' \in 0..MaxReboots
  BY <1>1, BoundsAssumption DEF Reboot, BoundInv
<1>4. TaskInv'
  BY <1>3, ConfigsType DEF TaskInv, RateMatches
<1>5. DisplayInv'
  BY <1>1, <1>2, <1>3 DEF DisplayInv, Created
<1>6. StoreInv'
  BY <1>1, <1>2, <1>3, ConfigsType DEF StoreInv, Survives, Created
<1>7. LedInv'
  <2>1. PICK m \in 0..MaxLeds : leds' = (IF tpc \in {"blank", "frame"} THEN Latched(m) ELSE leds)
    BY DEF Reboot
  <2> QED
    BY <1>1, <2>1, LatchedType DEF LedInv
<1>8. BoundInv'
  BY <1>1, <1>2, <1>3 DEF BoundInv
<1> QED
  BY <1>4, <1>5, <1>6, <1>7, <1>8 DEF IInv

LEMMA NextIInv == IInv /\ [Next]_vars => IInv'
<1> SUFFICES ASSUME IInv, [Next]_vars PROVE IInv'
  OBVIOUS
<1>1. CASE UNCHANGED vars
  BY <1>1 DEF vars, global, task, nvs, bounds, IInv, TaskInv, RateMatches, DisplayInv, StoreInv,
              Survives, LedInv, BoundInv
<1> QED
  BY <1>1, IledTaskKeeps, CommandKeeps, FrameKeeps, RebootKeeps DEF Next

LEMMA Invariance == Spec => []IInv
BY InitIInv, NextIInv, PTL DEF Spec

-----------------------------------------------------------------------------
(* Every variable of Iled keeps its type.                                  *)
THEOREM TypeCorrect == Spec => []TypeOK
<1>1. IInv => TypeOK
  <2> SUFFICES ASSUME IInv PROVE TypeOK
    OBVIOUS
  <2>1. nodem_config.width \in Nat /\ nodem_config.height \in Nat
    BY NodemAssumption DEF IInv, DisplayInv, NodemConfig
  <2>2. surface \in Nat \X Nat /\ buffer \subseteq Nat
    BY <2>1 DEF IInv, DisplayInv
  <2> QED
    BY <2>2 DEF IInv, TaskInv, DisplayInv, StoreInv, LedInv, BoundInv, TypeOK
<1> QED
  BY <1>1, Invariance, PTL

(* No frame is sent at another rate than the one it is encoded for.        *)
THEOREM RatesMatch == Spec => []RateMatches
<1>1. IInv => RateMatches
  BY DEF IInv, TaskInv
<1> QED
  BY <1>1, Invariance, PTL

(* Surface, framebuffer and configuration are of one geometry.             *)
THEOREM SurfacesMatch == Spec => []SurfaceMatches
<1>1. IInv => SurfaceMatches
  BY DEF IInv, DisplayInv, SurfaceMatches
<1> QED
  BY <1>1, Invariance, PTL

(* What is in force is what the next start reads.                          *)
THEOREM ConfigurationsSurvive == Spec => []Survives
<1>1. IInv => Survives
  BY DEF IInv, StoreInv
<1> QED
  BY <1>1, Invariance, PTL
=============================================================================
