------------------------------- MODULE Layout -------------------------------
(***************************************************************************)
(* The geometry of the display drivers: which pixel of nodem's framebuffer *)
(* a driver's pixel shows (src/driver.rs, src/global.rs), which LED of a   *)
(* chain a pixel of a matrix is, and how many bytes a frame for the chain  *)
(* takes (src/iled.rs).  Only operators; Iled is built from them.          *)
(***************************************************************************)
EXTENDS Integers

(* ChainLayout: the corner the chain enters at, whether its lines are rows *)
(* or columns, and whether every other line runs back.                     *)
ChainLayout ==
  [h_edge : {"Left", "Right"}, v_edge : {"Top", "Bottom"},
   axis : {"Row", "Column"}, serpentine : BOOLEAN]

(* Whether a line runs in the direction the corner gives. *)
LineForward(l, line) ==
  LET base == IF l.axis = "Row" THEN l.h_edge = "Left" ELSE l.v_edge = "Top"
  IN  base # (l.serpentine /\ line % 2 = 1)

(* Mutant of LedIndex: the lines of a matrix are as long as it is wide. *)
LedIndexByRow(l, x, y, width, height) ==
  LET row == l.axis = "Row"
      top == IF l.v_edge = "Top" THEN y ELSE height - 1 - y
      left == IF l.h_edge = "Left" THEN x ELSE width - 1 - x
      line == IF row THEN top ELSE left
      forward == LineForward(l, line)
  IN  line * width + (IF row THEN (IF forward THEN x ELSE width - 1 - x)
                             ELSE (IF forward THEN y ELSE height - 1 - y))

(* ChainLayout::led_index. *)
LedIndex(l, x, y, width, height) ==
  LET row == l.axis = "Row"
      top == IF l.v_edge = "Top" THEN y ELSE height - 1 - y
      left == IF l.h_edge = "Left" THEN x ELSE width - 1 - x
      line == IF row THEN top ELSE left
      length == IF row THEN width ELSE height
      forward == LineForward(l, line)
  IN  line * length + (IF row THEN (IF forward THEN x ELSE width - 1 - x)
                              ELSE (IF forward THEN y ELSE height - 1 - y))

(* The other way round, from the wire's point of view: where the LED at    *)
(* position k is.  The chain starts at the corner, fills a line, and goes  *)
(* on with the next one, from its far end if the wiring is serpentine.     *)
Along(near, k, length, back) ==
  LET step == IF back THEN length - 1 - k ELSE k
  IN  IF near THEN step ELSE length - 1 - step

Cell(l, k, width, height) ==
  LET length == IF l.axis = "Row" THEN width ELSE height
      line == k \div length
      back == l.serpentine /\ line % 2 = 1
  IN  IF l.axis = "Row"
        THEN <<Along(l.h_edge = "Left", k % length, width, back),
               Along(l.v_edge = "Top", line, height, FALSE)>>
        ELSE <<Along(l.h_edge = "Left", line, width, FALSE),
               Along(l.v_edge = "Top", k % length, height, back)>>

-----------------------------------------------------------------------------
(* DriverView::pixel, along one axis: the margin a smaller framebuffer     *)
(* leaves, and the framebuffer's coordinate that driver pixel d shows.     *)
Margin(size, fb, scale) ==
  IF size >= fb * scale THEN (size - fb * scale) \div 2 ELSE 0

FbAxis(d, size, fb, scale, shift) == shift + (d - Margin(size, fb, scale)) \div scale

(* Global::display_pixel: a buffer is the set of its bits that are set. *)
InFramebuffer(x, y, width, height) == x \in 0..(width - 1) /\ y \in 0..(height - 1)
Bit(x, y, width) == y * width + x
DisplayPixel(bits, x, y, width, height) ==
  InFramebuffer(x, y, width, height) /\ Bit(x, y, width) \in bits

(* NodemConfig::buffer_len, and the buffer's last bit. *)
BufferLen(width, height) == (width * height + 7) \div 8

(* DriverView::fallback_pixel: every other pixel of the edge. *)
FallbackPixel(x, y, width, height, phase) ==
  (x \in {0, width - 1} \/ y \in {0, height - 1}) /\ (x + y + phase) % 2 = 0

-----------------------------------------------------------------------------
(* The bounds "#iled" is checked against, and what a frame is sized for.   *)
MAX_LEDS == 128
MIN_RESOLUTION == 2
MAX_RESOLUTION == 8
MIN_PATTERN_NS == 1000
MAX_RESET_NS == 1000000
MAX_TOTAL_CHANNEL_BITS == 5 * 8
NS == 1000000000

CeilDiv(a, b) == (a + b - 1) \div b

MAX_BYTES_PER_LED == (MAX_TOTAL_CHANNEL_BITS * MAX_RESOLUTION + 7) \div 8
MAX_BIT_RATE_HZ == (MAX_RESOLUTION * NS) \div MIN_PATTERN_NS
MAX_RESET_BYTES == ((MAX_BIT_RATE_HZ * MAX_RESET_NS) \div NS) \div 8
MIN_FRAME_LEN == MAX_LEDS * MAX_BYTES_PER_LED + MAX_RESET_BYTES
I2S_DMA_BUFFER_MAX == 4092
DMA_BUFFERS_PER_FRAME == CeilDiv(MIN_FRAME_LEN, I2S_DMA_BUFFER_MAX)
DMA_BUFFER_LEN == 4 * CeilDiv(CeilDiv(MIN_FRAME_LEN, DMA_BUFFERS_PER_FRAME), 4)
FRAME_LEN == DMA_BUFFER_LEN * DMA_BUFFERS_PER_FRAME

(* What one LED takes, and what the chain needs to see of low output. *)
BytesPerLed(totalBits, resolution) == (totalBits * resolution) \div 8
BitRate(resolution, pattern_ns) == (resolution * NS) \div pattern_ns
ResetBytes(resolution, pattern_ns, reset_ns) ==
  ((BitRate(resolution, pattern_ns) * reset_ns) \div NS) \div 8
=============================================================================
