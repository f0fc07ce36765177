------------------------------ MODULE PrintBuf ------------------------------
(***************************************************************************)
(* The growing character buffer of json-c (printbuf.c), in which a value   *)
(* is printed.  A buffer is a record: size, the bytes allocated; chars,    *)
(* what it holds since the last reset (bpos is their number); ended, is    *)
(* there a 0 byte at bpos.  What else is in the memory is never relied on, *)
(* and so is not kept.                                                     *)
(***************************************************************************)
EXTENDS Integers, Sequences

CONSTANTS Char_,        \* the characters
          BufSize,      \* bytes of a new buffer (32)
          Slack         \* bytes allocated beyond a large request (8)

ASSUME BufSizeAssumption == BufSize \in Nat \ {0}
ASSUME SlackAssumption   == Slack \in Nat

VARIABLE pb

Larger(a, b) == IF a > b THEN a ELSE b

\* printbuf_new: the byte at bpos is whatever malloc returned.
NewBuf == [size |-> BufSize, chars |-> <<>>, ended |-> FALSE]

ExtendedToTwice(size, min) ==                                    \* mutant
    IF size >= min THEN size ELSE 2 * size

\* printbuf_extend
Extended(size, min) ==
    IF size >= min THEN size ELSE Larger(2 * size, min + Slack)

\* printbuf_memappend: the characters s and a 0 behind them.
MemAppend(b, s) ==
    LET need == Len(b.chars) + Len(s) + 1
    IN  [size  |-> IF b.size <= need THEN Extended(b.size, need) ELSE b.size,
         chars |-> b.chars \o s,
         ended |-> TRUE]

\* printbuf_memappend_fast, with which the parser collects characters.
MemAppendFast(b, s) ==
    IF b.size - Len(b.chars) > Len(s)
    THEN [size |-> b.size, chars |-> b.chars \o s, ended |-> TRUE]
    ELSE MemAppend(b, s)

\* printbuf_memset at offset -1: n times the character x, and no 0.
MemSet(b, x, n) ==
    LET need == Len(b.chars) + n
    IN  [size  |-> IF b.size < need THEN Extended(b.size, need) ELSE b.size,
         chars |-> b.chars \o [i \in 1 .. n |-> x],
         ended |-> b.ended /\ n = 0]

\* printbuf_reset
ResetBuf(b) == [size |-> b.size, chars |-> <<>>, ended |-> TRUE]

\* A caller of printbuf.h: it makes a buffer, or uses the one it has.
BufInit == pb = NewBuf
BufNext ==
    \/ pb' = NewBuf
    \/ pb' = ResetBuf(pb)
    \/ \E s \in Seq(Char_) : pb' = MemAppend(pb, s) \/ pb' = MemAppendFast(pb, s)
    \/ \E x \in Char_, n \in Nat : pb' = MemSet(pb, x, n)
BufSpec == BufInit /\ [][BufNext]_pb

-----------------------------------------------------------------------------
(* Property.                                                               *)

\* Every byte written lies in the memory allocated: the characters, and the
\* 0 behind them when it was written, however the calls are mixed.  (The three
\* ways to write compare the size in different ways.)
InBounds == Len(pb.chars) + (IF pb.ended THEN 1 ELSE 0) <= pb.size
=============================================================================
