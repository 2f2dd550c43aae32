------------------------------ MODULE MemTests ------------------------------
(***************************************************************************)
(* The memory tests of memtest86+: the switch of main.c that calls them,   *)
(* the functions of test.c and the generator of random.c.                  *)
(*                                                                         *)
(* A test walks the segments of the window in chunks.  One action is one   *)
(* chunk of one sweep of one function, from the computation of its limit   *)
(* to the do_tick() that ends it.  A key may be taken there, and at every  *)
(* error reported on the way; whatever it asks for, the chunk is written to*)
(* its end.  Memory is real memory: it may have a fault, so that what the  *)
(* tests report is checked against what is wrong with it.                  *)
(*                                                                         *)
(* Pointers are numbers of words modulo AddrWords, words are numbers of    *)
(* Bits bits.  here is the place in the code:                              *)
(*   at     the sweep, "call" in the switch, "over" when it is left        *)
(*   i      the iteration                                                  *)
(*   j      the segment                                                    *)
(*   p, pe  the pointer, and the limit of the chunk before                 *)
(*   k, w   k and pat of movinv32(), k of modtst(), p1 of the address test *)
(***************************************************************************)
EXTENDS Integers, Sequences

CONSTANTS
  Bits,        \* of a word, 32
  ByteBits,    \* of the pattern that test 3 repeats over a word, 8
  AddrWords,   \* words of the address space, 2^30
  SPINSZ,      \* words of a chunk
  MOD_SZ,      \* stride of the modulo test, 20
  AlignWords,  \* of the address test: 0x20000 bytes,
  BankWords,   \* and 0x100000 or 0x40000
  BlockWords,  \* words the block move fills at a time, 16
  ShiftWords,  \* words it rotates a chunk by, 8
  Inverted,    \* the pairs of those that hold the complement, 2, 5 and 7
  USB_WAR,     \* first word of the block move, 0x4f0 >> 2
  MulX, MulY,  \* the multipliers of rand()
  SEED_X, SEED_Y,
  Seeds,       \* what rdtsc may give
  Repeats,     \* times the address test repeats its writes, 100 and 200
  Iter,        \* tseq[].iter, by pattern
  Passes,      \* v->pass
  Maps,        \* the segments of a window
  Faults,      \* what may be wrong with the memory
  MaxTicks     \* bound on the ticks counted

Pats == DOMAIN Iter
Ones == 2 ^ Bits - 1
Half == 2 ^ (Bits \div 2)
Word == 0 .. Ones

(* An address is a word; the generators do not overflow; two turns of the  *)
(* block move are the blocks of a chunk.                                   *)
ASSUME WordsAssumption ==
  /\ Bits \in Nat \ {0} /\ ByteBits \in 1 .. Bits
  /\ Bits % 2 = 0 /\ Bits % ByteBits = 0
  /\ AddrWords \in Nat /\ AddrWords <= 2 ^ Bits /\ SPINSZ \in 1 .. AddrWords - 1
  /\ MOD_SZ \in Nat \ {0} /\ AlignWords \in Nat \ {0} /\ BankWords \in Nat \ {0}
  /\ BlockWords \in Nat \ {0} /\ BlockWords % 4 = 0 /\ SPINSZ % BlockWords = 0
  /\ 2 * ShiftWords = BlockWords /\ ShiftWords \in Nat /\ USB_WAR \in Nat
  /\ USB_WAR % 4 = 0
  /\ {MulX, MulY} \subseteq 0 .. Half - 1 /\ {SEED_X, SEED_Y} \subseteq Word
  /\ Seeds \subseteq Word \X Word /\ {Repeats, MaxTicks} \subseteq Nat
(* The tests there are; the block move moves at least once in every pass.  *)
ASSUME TestsAssumption ==
  /\ Pats \subseteq {0, 1, 2} \cup 5 .. 11 /\ Passes \subseteq Nat
  /\ \A p \in Pats : Iter[p] \in Nat /\ (p = 7 => Iter[p] >= 2)
(* Segments are in order and end where emapping() puts them, short of the  *)
(* end of a page: at whole blocks, after a whole number of turns of a      *)
(* pattern, and with a last chunk that has room for a stride of the modulo *)
(* test, and for a block and as much as the block move leaves of it.       *)
LastChunk(start, end) == (end - start) % SPINSZ
BlockRoom(n) == n >= BlockWords /\ n >= 2 * (n % BlockWords)
Trimmed(seg) ==
  /\ seg.end < AddrWords /\ seg.end > USB_WAR
  /\ seg.start % BlockWords = 0 /\ seg.end % BlockWords = 0
  /\ seg.start % Bits = 0 /\ seg.end % Bits = 0
  /\ seg.end > seg.start /\ LastChunk(seg.start, seg.end) > MOD_SZ
  /\ BlockRoom(LastChunk(seg.start, seg.end))
  /\ seg.start < USB_WAR => BlockRoom(LastChunk(USB_WAR, seg.end))
ASSUME MapsAssumption ==
  \A m \in Maps :
    /\ m \in Seq([start : Nat, end : Nat]) /\ m # <<>>
    /\ \A n \in 1 .. Len(m) : Trimmed(m[n])
    /\ \A n \in 1 .. Len(m) - 1 : m[n].end <= m[n + 1].start
ASSUME FaultsAssumption ==
  \A f \in Faults : /\ f.kind \in {"none", "stuck", "couple", "alias"}
                    /\ f.bit \in 0 .. Bits - 1 /\ f.value \in {0, 1}

VARIABLES
  pat,     \* tseq[v->test].pat
  pass,    \* v->pass
  map,     \* v->map, segs of them
  fault,   \* what is wrong with the memory
  mem,     \* the memory tested
  rng,     \* SEED_X and SEED_Y
  call,    \* calls the switch has made
  arg,     \* the arguments of the function called
  here,    \* the place in it
  bail,    \* a key has asked for something else
  nticks,
  errs,    \* history: the addresses reported
  strays,  \* history: <<sweep, address>> written outside the segments
  late     \* history: words written after the key that set bail was taken

vars == <<pat, pass, map, fault, mem, rng, call, arg, here, bail, nticks,
          errs, strays, late>>

segs == Len(map)
CellsOf(m) == UNION {m[n].start .. m[n].end - 1 : n \in 1 .. Len(m)}
Cells == CellsOf(map)

(* What memory holds before a test writes it: no word a test writes, and   *)
(* another at each address.                                                *)
Leftover(a) == -1 - a

-----------------------------------------------------------------------------
(* Words and pointers.                                                     *)
Not(x)   == Ones - x
Rol(x, n) == LET r == n % Bits
             IN  ((x * 2 ^ r) % 2 ^ Bits) + (x \div 2 ^ (Bits - r))
Ror(x, n) == Rol(x, Bits - (n % Bits))
Bit(x, b) == (x \div 2 ^ b) % 2
WithBit(x, b, v) == x + (v - Bit(x, b)) * 2 ^ b
roundup(a, n) == (((a + n - 1) % AddrWords) \div n) * n

(* The multiply with carry generators, and how they are seeded.            *)
rand(s) == << (MulX * (s[1] % Half)) + (s[1] \div Half),
              (MulY * (s[2] % Half)) + (s[2] \div Half) >>
Drawn_with_no_width(s) == (s[1] * Half) + (s[2] % Half)
Drawn(s) == ((s[1] * Half) + (s[2] % Half)) % 2 ^ Bits
rand_seed(s, seeds) == << IF seeds[1] # 0 THEN seeds[1] ELSE s[1],
                          IF seeds[2] # 0 THEN seeds[2] ELSE s[2] >>

-----------------------------------------------------------------------------
(* The memory.  A fault is a bit stuck, a bit that follows the same bit of *)
(* another word whenever that is written, or two addresses of one word.    *)
CellAt(a) == IF fault.kind = "alias" /\ a = fault.other THEN fault.cell ELSE a

Load(m, a) == IF a \in DOMAIN m THEN m[CellAt(a)] ELSE Ones

Store(m, a, v) ==
  LET c == CellAt(a)
      x == IF fault.kind = "stuck" /\ c = fault.cell
           THEN WithBit(v, fault.bit, fault.value) ELSE v
      n == [m EXCEPT ![c] = x]
  IN  IF a \notin DOMAIN m THEN m
      ELSE IF fault.kind = "couple" /\ c = fault.other
              /\ n[fault.cell] >= 0
      THEN [n EXCEPT ![fault.cell] = WithBit(@, fault.bit, Bit(v, fault.bit))]
      ELSE n

(* What a chunk works on.  since has, for each report of the chunk, the    *)
(* words written after it.                                                 *)
State == [mem |-> mem, errs |-> errs, strays |-> strays, rng |-> rng,
          k |-> here.k, w |-> here.w, since |-> {}]

Write(s, a, v) ==
  [s EXCEPT !.mem = Store(@, a, v),
            !.strays = IF a \in DOMAIN mem THEN @ ELSE @ \cup {<<here.at, a>>},
            !.since = {n + 1 : n \in @}]
(* common_err() looks at the keyboard: a menu may set bail here, and the   *)
(* loop that has found the error goes on.                                  *)
Report(s, a) == [s EXCEPT !.errs = @ \cup {a}, !.since = @ \cup {0}]
Check(s, a, v) == IF Load(s.mem, a) # v THEN Report(s, a) ELSE s
CheckWrite(s, a, v, n) == Write(Check(s, a, v), a, n)

(* The body of a loop, for the addresses first, first + step, ...  A state *)
(* is bound in a set so that TLC computes it once.                         *)
Each(Body(_, _), s, first, step, count) ==
  LET after[n \in 0 .. count] ==
        IF n = 0 THEN s
        ELSE CHOOSE t \in {Body(x, first + (n - 1) * step) : x \in {after[n - 1]}} :
               TRUE
  IN  after[count]

-----------------------------------------------------------------------------
(* Chunks.  The limit of the next one, with the check for overflow; the    *)
(* loops are do-while loops, so that one word is always visited.           *)
Limit(pe, end) ==
  LET n == (pe + SPINSZ) % AddrWords
  IN  IF n > pe /\ n < end THEN n ELSE end
LowLimit(pe, start) ==
  LET n == (pe - SPINSZ) % AddrWords
  IN  IF n < pe /\ n > start THEN n ELSE start

Visits(p, lim, step) == IF p < lim THEN (lim - p + step - 1) \div step ELSE 1

Start(j) == map[j].start
End(j)   == map[j].end
(* The block move spares the low words that USB support in the BIOS uses.  *)
BlockStart(j) == IF Start(j) < USB_WAR THEN USB_WAR ELSE Start(j)

At(sweep) == here.at = sweep
Place(sweep, i, j, p, pe, k, w) ==
  [at |-> sweep, i |-> i, j |-> j, p |-> p, pe |-> pe, k |-> k, w |-> w]
Up(sweep, i, j, k, w)   == Place(sweep, i, j, Start(j), Start(j), k, w)
Down(sweep, i, j, k, w) == Place(sweep, i, j, End(j) - 1, End(j) - 1, k, w)
Return == Place("call", 0, 1, 0, 0, 0, 0)
Over   == Place("over", 0, 1, 0, 0, 0, 0)

-----------------------------------------------------------------------------
Tick_with_no_bail(s, next) ==
  /\ bail' \in {bail, TRUE}
  /\ \E t \in {s} :
       /\ mem' = t.mem /\ errs' = t.errs /\ strays' = t.strays /\ rng' = t.rng
       /\ late' \in IF bail' THEN {0} \cup t.since ELSE {0}
  /\ nticks' = IF nticks < MaxTicks THEN nticks + 1 ELSE nticks
  /\ here' = next
  /\ UNCHANGED <<pat, pass, map, fault, call, arg>>

(* do_tick() and BAILR.  A key that ends the test has been taken in the    *)
(* tick, with nothing written after it, or at one of the reports of the    *)
(* chunk.                                                                  *)
Tick(s, next) ==
  /\ bail' \in {bail, TRUE}
  /\ \E t \in {s} :
       /\ mem' = t.mem /\ errs' = t.errs /\ strays' = t.strays /\ rng' = t.rng
       /\ late' \in IF bail' THEN {0} \cup t.since ELSE {0}
  /\ nticks' = IF nticks < MaxTicks THEN nticks + 1 ELSE nticks
  /\ here' = IF bail' THEN Over ELSE next
  /\ UNCHANGED <<pat, pass, map, fault, call, arg>>

Goto(next) == /\ here' = next
              /\ UNCHANGED <<pat, pass, map, fault, mem, rng, call, arg, bail,
                             nticks, errs, strays, late>>

(* What each sweep does at a word.  Test 6 turns its pattern by one bit     *)
(* from word to word, and test 7 draws a new one.  The first word of each  *)
(* block of test 5 is a one that turns through the carry.                  *)
Turn(s)     == [s EXCEPT !.k = (@ + 1) % Bits, !.w = Rol(@, 1)]
TurnBack(s) == [s EXCEPT !.k = (@ - 1) % Bits, !.w = Ror(@, 1)]
Count(s)    == [s EXCEPT !.k = IF @ + 1 > MOD_SZ - 1 THEN 0 ELSE @ + 1]
Draw(s)     == [s EXCEPT !.rng = rand(@)]
Expected(s) == IF here.i = 2 THEN Not(Drawn(s.rng)) ELSE Drawn(s.rng)
BlockWord(g, n) ==
  LET e == IF g % (Bits + 1) = Bits THEN 0 ELSE 2 ^ (g % (Bits + 1))
  IN  IF n \div 2 \in Inverted THEN Not(e) ELSE e

Visit(s, a) ==
  CASE At("own_write")   -> Write(s, a, a)
    [] At("own_check")   -> Check(s, a, a)
    [] At("inv_fill")    -> Write(s, a, arg.p1)
    [] At("inv_up")      -> CheckWrite(s, a, arg.p1, arg.p2)
    [] At("inv_down")    -> CheckWrite(s, a, arg.p2, arg.p1)
    [] At("shift_fill")  -> Turn(Write(s, a, s.w))
    [] At("shift_up")    -> Turn(CheckWrite(s, a, s.w, Not(s.w)))
    [] At("shift_down")  -> TurnBack(CheckWrite(s, a, Not(s.w), s.w))
    [] At("mod_write")   -> Write(s, a, arg.p1)
    [] At("mod_rest")    -> Count(IF s.k # arg.off THEN Write(s, a, arg.p2) ELSE s)
    [] At("mod_check")   -> Check(s, a, arg.p1)
    [] At("rand_fill")   -> LET d == Draw(s) IN Write(d, a, Drawn(d.rng))
    [] At("rand_check")  -> LET d == Draw(s)
                            IN  CheckWrite(d, a, Expected(d), Not(Expected(d)))
    [] At("block_fill")  -> Write(s, (here.p + a) % AddrWords,
                                  BlockWord(a \div BlockWords, a % BlockWords))
    [] At("block_check") -> Check(s, a, Load(s.mem, a + 1))
    [] At("fade_fill")   -> Write(s, a, here.w)
    [] At("fade_check")  -> Check(s, a, here.w)
Sweep(first, step, count) == Each(Visit, State, first, step, count)

(* A chunk of a sweep: where the sweep goes on in the next segment, and    *)
(* after the last one.                                                     *)
ChunkUp(sweep, step, Segment(_), Then(_)) ==
  LET lim  == Limit(here.pe, End(here.j))
      n    == Visits(here.p, lim, step)
      s    == Sweep(here.p, step, n)
      on   == IF here.j < segs THEN Segment(here.j + 1) ELSE Then(s)
      next == [here EXCEPT !.p = @ + n * step, !.pe = lim,
                           !.k = s.k, !.w = s.w]
  IN  /\ At(sweep)
      /\ IF here.p = lim THEN Goto(on)
         ELSE Tick(s, IF lim < End(here.j) THEN next ELSE on)

(* The same from the last segment down; k and pat go on in the next one.   *)
ChunkDown(sweep, Then(_)) ==
  LET lim  == LowLimit(here.pe, Start(here.j))
      s    == Sweep(here.p, -1, here.p - lim + 1)
      on   == IF here.j > 1 THEN Down(sweep, here.i, here.j - 1, s.k, s.w)
              ELSE Then(s)
      next == [here EXCEPT !.p = lim - 1, !.pe = lim, !.k = s.k, !.w = s.w]
  IN  /\ At(sweep)
      /\ IF here.p = lim THEN Goto(on)
         ELSE Tick(s, IF lim > Start(here.j) THEN next ELSE on)

-----------------------------------------------------------------------------
(* Test 1, own address.                                                    *)
Addr2Write ==
  ChunkUp("own_write", 1, LAMBDA j : Up("own_write", 0, j, 0, 0),
          LAMBDA s : Up("own_check", 0, 1, 0, 0))
Addr2Check ==
  ChunkUp("own_check", 1, LAMBDA j : Up("own_check", 0, j, 0, 0),
          LAMBDA s : Return)

(* Tests 2, 3 and 4, moving inversions.                                    *)
MovInv1Again(i) == IF i < arg.iter THEN Up("inv_up", i, 1, 0, 0) ELSE Return
MovInv1Fill ==
  ChunkUp("inv_fill", 1, LAMBDA j : Up("inv_fill", 0, j, 0, 0),
          LAMBDA s : MovInv1Again(0))
MovInv1Up ==
  ChunkUp("inv_up", 1, LAMBDA j : Up("inv_up", here.i, j, 0, 0),
          LAMBDA s : Down("inv_down", here.i, segs, 0, 0))
MovInv1Down == ChunkDown("inv_down", LAMBDA s : MovInv1Again(here.i + 1))

(* Test 6: k and pat begin anew in each segment, and go on downward.       *)
MovInv32Again_with_counter_reset(i) ==
  IF i < arg.iter THEN Up("shift_up", 0, 1, arg.off, arg.p1) ELSE Return
MovInv32Again(i) ==
  IF i < arg.iter THEN Up("shift_up", i, 1, arg.off, arg.p1) ELSE Return
BackUp_with_no_step(k) == Down("shift_down", here.i, segs, k, Rol(arg.lb, k))
(* k and pat are one step too far: this backs both up.                     *)
BackUp(k) == Down("shift_down", here.i, segs, ((k - 1) % Bits) + 1,
                  Rol(arg.lb, (k - 1) % Bits))
MovInv32Fill ==
  ChunkUp("shift_fill", 1, LAMBDA j : Up("shift_fill", 0, j, arg.off, arg.p1),
          LAMBDA s : MovInv32Again(0))
MovInv32Up ==
  ChunkUp("shift_up", 1, LAMBDA j : Up("shift_up", here.i, j, arg.off, arg.p1),
          LAMBDA s : BackUp(s.k))
MovInv32Down == ChunkDown("shift_down", LAMBDA s : MovInv32Again(here.i + 1))

(* Test 8: every MOD_SZ-th word from off on.                               *)
Every(sweep, j) == Place(sweep, 0, j, Start(j) + arg.off, Start(j), 0, 0)
ModAgain(l) ==
  IF l < arg.iter THEN Up("mod_rest", l, 1, 0, 0) ELSE Every("mod_check", 1)
ModWrite ==
  ChunkUp("mod_write", MOD_SZ, LAMBDA j : Every("mod_write", j),
          LAMBDA s : ModAgain(0))
ModRest ==
  ChunkUp("mod_rest", 1, LAMBDA j : Up("mod_rest", here.i, j, 0, 0),
          LAMBDA s : ModAgain(here.i + 1))
ModCheck ==
  ChunkUp("mod_check", MOD_SZ, LAMBDA j : Every("mod_check", j),
          LAMBDA s : Return)

(* Test 7: a sequence of random numbers, drawn again to check it.  Before  *)
(* sweep i, 0 to write it and 1 and 2 to check it, the seeds are set.      *)
SeedAgain(i)    == IF i < 3 THEN Place("rand_seed", i, 1, 0, 0, 0, 0) ELSE Return
RandSeed ==
  /\ At("rand_seed")
  /\ rng' = rand_seed(rng, arg.seeds)
  /\ here' = Up(IF here.i = 0 THEN "rand_fill" ELSE "rand_check", here.i, 1, 0, 0)
  /\ UNCHANGED <<pat, pass, map, fault, mem, call, arg, bail, nticks, errs,
                 strays, late>>
RandFill ==
  ChunkUp("rand_fill", 1, LAMBDA j : Up("rand_fill", 0, j, 0, 0),
          LAMBDA s : SeedAgain(1))
RandCheck ==
  ChunkUp("rand_check", 1, LAMBDA j : Up("rand_check", here.i, j, 0, 0),
          LAMBDA s : SeedAgain(here.i + 1))

-----------------------------------------------------------------------------
(* Test 5, block move.  A loop that starts from no blocks runs until its   *)
(* counter wraps: over the whole address space.                            *)
Blocks(p, lim) ==
  LET len == (lim - p) \div BlockWords
  IN  IF len = 0 THEN AddrWords \div BlockWords ELSE len
BlockUp(sweep, j) == Place(sweep, 0, j, BlockStart(j), BlockStart(j), 0, 0)

BlockFill ==
  LET p    == here.p
      lim  == Limit(here.pe, End(here.j))
      len  == Blocks(p, lim)
      s    == Sweep(0, 1, len * BlockWords)
      on   == IF here.j < segs THEN BlockUp("block_fill", here.j + 1)
              ELSE BlockUp("block_move", 1)
  IN  /\ At("block_fill")
      /\ IF p = lim THEN Goto(on)
         ELSE Tick(s, IF lim < End(here.j)
                      THEN [here EXCEPT !.p = p + len * BlockWords, !.pe = lim]
                      ELSE on)

(* The first half of the chunk goes to the second, which comes back        *)
(* ShiftWords further up, its end first.                                   *)
MoveWord(s, from, to, x) == Write(s, to + x, Load(s.mem, from + x))
Move(s, from, to, n) ==
  Each(LAMBDA t, x : MoveWord(t, from, to, x), s, 0, 1, n)
MoveOnce(s, p, lim) ==
  LET len == (lim - p) \div 2
      pp  == p + len
      s1  == Move(s, p, pp, len)
      s2  == Move(s1, pp, p + ShiftWords, len - ShiftWords)
  IN  Move(s2, pp + len - ShiftWords, p, ShiftWords)

BlockMove ==
  LET p    == here.p
      lim  == Limit(here.pe, End(here.j))
      on   == IF lim < End(here.j)
              THEN Place("block_move", 0, here.j, lim, lim, 0, 0)
              ELSE IF here.j < segs THEN BlockUp("block_move", here.j + 1)
              ELSE BlockUp("block_check", 1)
  IN  /\ At("block_move")
      /\ IF p = lim \/ arg.iter = 0 THEN Goto(on)
         ELSE Tick(MoveOnce(State, p, lim),
                   IF here.i + 1 < arg.iter THEN [here EXCEPT !.i = @ + 1]
                   ELSE on)

(* Two words at a time must be the same.                                   *)
BlockCheck ==
  LET p    == here.p
      lim  == Limit(here.pe, End(here.j))
      s    == Sweep(p, 2, Visits(p, lim, 2))
      on   == IF here.j < segs THEN BlockUp("block_check", here.j + 1)
              ELSE Return
  IN  /\ At("block_check")
      /\ IF p = lim THEN Goto(on)
         ELSE Tick(s, IF lim < End(here.j)
                      THEN [here EXCEPT !.p = p + Visits(p, lim, 2) * 2, !.pe = lim]
                      ELSE on)

-----------------------------------------------------------------------------
(* Test 9, bit fade: a segment at a time.  A key only ends the sleep.      *)
OverSegment == Sweep(Start(here.j), 1, End(here.j) - Start(here.j))
FadeFill ==
  /\ At("fade_fill")
  /\ Tick(OverSegment, IF here.j < segs THEN [here EXCEPT !.j = @ + 1]
                       ELSE [here EXCEPT !.at = "fade_sleep"])
sleep ==
  /\ At("fade_sleep")
  /\ bail' \in BOOLEAN
  /\ here' = [here EXCEPT !.at = "fade_check", !.j = 1]
  /\ UNCHANGED <<pat, pass, map, fault, mem, rng, call, arg, nticks, errs,
                 strays, late>>
FadeCheck ==
  /\ At("fade_check")
  /\ Tick(OverSegment, IF here.j < segs THEN [here EXCEPT !.j = @ + 1]
                       ELSE IF here.w = 0 THEN Up("fade_fill", 0, 1, 0, Ones)
                       ELSE Return)

-----------------------------------------------------------------------------
(* Test 0, walking ones.  From base on, a one walks through the address up *)
(* to the end given, and what is at base must not change.                  *)
Point(base, n) == IF Bit(base, n) = 1 THEN base ELSE base + 2 ^ n
Touch(s, base, end, p1, n) ==
  IF Point(base, n) = base \/ Point(base, n) >= end THEN s
  ELSE Check(Write(s, Point(base, n), Not(p1)), base, p1)
Touches(s, base, end, p1) ==
  Each(LAMBDA t, n : Touch(t, base, end, p1, n), s, 0, 1, Bits)
Walk(s, base, end, p1) ==
  Each(LAMBDA t, i : IF t.errs # s.errs THEN t ELSE Touches(t, base, end, p1),
       Write(s, base, p1), 1, 1, Repeats)

(* The global address bits.                                                *)
Addr1Global ==
  /\ At("walk_global")
  /\ Tick(Walk(State, roundup(Start(1), AlignWords), End(segs), here.w),
          IF here.i = 0 THEN [here EXCEPT !.i = 1, !.w = Not(@)]
          ELSE Up("walk_banks", 0, 1, 0, 0))

(* The address bits of each bank; no tick between the segments.            *)
Bank(j) == roundup(Start(j), BankWords)
Banks(s, j) ==
  Each(LAMBDA t, base : Walk(t, base, End(j), here.w), s, Bank(j), BankWords,
       IF Bank(j) >= End(j) THEN 0
       ELSE (End(j) - Bank(j) + BankWords - 1) \div BankWords)
Addr1Banks ==
  /\ At("walk_banks")
  /\ Tick(Each(Banks, State, 1, 1, segs),
          IF here.i = 0 THEN [here EXCEPT !.i = 1, !.w = Not(@)] ELSE Return)

-----------------------------------------------------------------------------
(* The switch: the iterations, half of them in the first pass, and the     *)
(* calls of a pattern.                                                     *)
c_iter == IF pass = 0 THEN Iter[pat] \div 2 ELSE Iter[pat]

Calls ==
  CASE pat = 0  -> 2
    [] pat = 1  -> 2 * ByteBits
    [] pat = 2  -> 2 * Bits
    [] pat = 9  -> c_iter
    [] pat = 10 -> c_iter
    [] pat = 11 -> 2 * MOD_SZ * c_iter
    [] OTHER    -> 1

(* p0 walks down through a byte and is repeated over the word.             *)
Repeated(p0) == p0 * (Ones \div (2 ^ ByteBits - 1))
Pattern_with_no_complement(p, n) == p
(* Every second call has the complement; the modulo test keeps it.         *)
Pattern(p, n) == IF n % 2 = 1 THEN Not(p) ELSE p
FirstOf(n) ==
  CASE pat = 1 -> Pattern(Repeated(2 ^ (ByteBits - 1 - n \div 2)), n)
    [] pat = 2 -> Pattern(2 ^ (n \div 2), n)
    [] pat = 10 -> Drawn(rand(rng))
    [] pat = 11 -> IF n % (2 * MOD_SZ) = 0 THEN Drawn(rand(rng))
                   ELSE Pattern(arg.p1, n)
    [] OTHER -> Pattern(0, n)
Draws(n) == pat = 10 \/ (pat = 11 /\ n % (2 * MOD_SZ) = 0)

Arguments(n, seeds) ==
  [p1 |-> FirstOf(n), p2 |-> Not(FirstOf(n)),
   iter |-> IF pat \in {10, 11} THEN 2 ELSE c_iter,
   off |-> CASE pat = 2 -> n \div 2
             [] pat = 11 -> (n % (2 * MOD_SZ)) \div 2
             [] OTHER -> 0,
   lb |-> Pattern(1, n), seeds |-> seeds]

Entry(a) ==
  CASE pat \in {0, 1, 10} -> Up("inv_fill", 0, 1, 0, 0)
    [] pat = 2  -> Up("shift_fill", 0, 1, a.off, a.p1)
    [] pat = 5  -> Up("walk_global", 0, 1, 0, 0)
    [] pat = 6  -> Up("own_write", 0, 1, 0, 0)
    [] pat = 7  -> BlockUp("block_fill", 1)
    [] pat = 8  -> Up("fade_fill", 0, 1, 0, 0)
    [] pat = 9  -> SeedAgain(0)
    [] pat = 11 -> Place("mod_write", 0, 1, Start(1) + a.off, Start(1), 0, 0)

Switch ==
  /\ At("call") /\ call < Calls
  /\ \E seeds \in IF pat = 9 THEN Seeds ELSE {<<0, 0>>} :
       LET a == Arguments(call, seeds)
       IN  arg' = a /\ here' = Entry(a)
  /\ rng' = IF Draws(call) THEN rand(rng) ELSE rng
  /\ call' = call + 1
  /\ UNCHANGED <<pat, pass, map, fault, mem, bail, nticks, errs, strays, late>>
TestDone ==
  /\ At("call") /\ call = Calls
  /\ Goto(Over)
(* The sequencer goes on with another test.                                *)
Finished == At("over") /\ UNCHANGED vars

-----------------------------------------------------------------------------
Init ==
  /\ pat \in Pats /\ pass \in Passes /\ map \in Maps
  /\ fault \in {f \in Faults : f.kind = "none" \/ {f.cell, f.other} \subseteq Cells}
  /\ mem = [a \in Cells |-> Leftover(a)]
  /\ rng = <<SEED_X, SEED_Y>>
  /\ call = 0 /\ arg = <<>> /\ here = Return
  /\ bail = FALSE /\ nticks = 0 /\ errs = {} /\ strays = {}
  /\ late = 0

Next ==
  \/ Switch \/ TestDone \/ Finished
  \/ Addr1Global \/ Addr1Banks \/ Addr2Write \/ Addr2Check
  \/ MovInv1Fill \/ MovInv1Up \/ MovInv1Down
  \/ MovInv32Fill \/ MovInv32Up \/ MovInv32Down
  \/ ModWrite \/ ModRest \/ ModCheck
  \/ RandSeed \/ RandFill \/ RandCheck
  \/ BlockFill \/ BlockMove \/ BlockCheck
  \/ FadeFill \/ sleep \/ FadeCheck

Spec == Init /\ [][Next]_vars /\ WF_vars(Next)

-----------------------------------------------------------------------------
chunks_with_no_part ==
  LET sum[n \in 0 .. segs] ==
        IF n = 0 THEN 0 ELSE sum[n - 1] + (End(n) - Start(n)) \div SPINSZ
  IN  sum[segs]
(* The length of the test as main.c predicts it, for the progress bar.     *)
chunks ==
  LET sum[n \in 0 .. segs] ==
        IF n = 0 THEN 0
        ELSE sum[n - 1] + (End(n) - Start(n) + SPINSZ - 1) \div SPINSZ
  IN  sum[segs]
find_ticks_for_test(ch) ==
  ch * CASE pat = 0 -> 2 + 4 * c_iter
         [] pat = 1 -> 24 + 24 * c_iter
         [] pat = 2 -> (1 + c_iter * 2) * 80
         [] pat = 5 -> 4
         [] pat = 6 -> 2
         [] pat = 7 -> 2 + c_iter
         [] pat = 8 -> 1
         [] pat = 9 -> 3 * c_iter
         [] pat = 10 -> c_iter + 4 * c_iter
         [] pat = 11 -> 4 * (2 * MOD_SZ) * c_iter

-----------------------------------------------------------------------------
Sweeps == {"call", "over", "own_write", "own_check", "inv_fill", "inv_up",
           "inv_down", "shift_fill", "shift_up", "shift_down", "mod_write",
           "mod_rest", "mod_check", "rand_seed", "rand_fill", "rand_check",
           "block_fill", "block_move", "block_check", "fade_fill",
           "fade_sleep", "fade_check", "walk_global", "walk_banks"}

(* Everything has its type; patterns and what is read are words.           *)
TypeOK ==
  /\ pat \in Pats /\ pass \in Passes /\ map \in Maps
  /\ mem \in [Cells -> Word \cup {Leftover(a) : a \in Cells}]
  /\ rng \in Word \X Word
  /\ call \in 0 .. Calls
  /\ here.at \in Sweeps /\ here.j \in 1 .. segs /\ here.w \in Word
  /\ bail \in BOOLEAN /\ nticks \in Nat
  /\ errs \subseteq 0 .. AddrWords - 1

Completed == At("over") /\ ~bail

(* What is reported is true.  Sound memory is never reported: what a sweep *)
(* expects at a word is what the sweep before it left there, however the   *)
(* chunks and segments fall, and no word is checked that was not written   *)
(* (all of test.c).  Of bad memory, only what is bad is reported, except   *)
(* by the block move, which moves it, and the address test, which reports  *)
(* the base of its walk.                                                   *)
ErrorsTrue ==
  IF fault.kind = "none" THEN errs = {}
  ELSE pat \notin {5, 7} => errs \subseteq {fault.cell, fault.other}

(* A test that runs to its end finds the faults it is there to find: every *)
(* pattern test the bits that are stuck, wherever they are in a segment,   *)
(* the moving inversions a word that follows its neighbour, the own        *)
(* address test two addresses of one word.                                 *)
Finds(p, kind) ==
  CASE kind = "stuck"  -> p \in {0, 1, 2, 8, 9, 10, 11}
    [] kind = "couple" -> p \in {0, 1, 2}
    [] kind = "alias"  -> p \in {0, 1, 2, 6}
    [] OTHER -> FALSE
FaultFound == Completed /\ Finds(pat, fault.kind) => errs # {}

(* Nothing is written outside the segments, but by the first part of the   *)
(* address test, which walks past holes (test.c:53-79).                    *)
Confined == \A x \in strays : x[1] = "walk_global"

(* The progress bar of a pass: as many ticks as main.c predicts.           *)
TicksPredicted ==
  pat \in {0, 6, 7, 9, 10, 11} =>
    /\ nticks <= find_ticks_for_test(chunks)
    /\ Completed => nticks = find_ticks_for_test(chunks)

(* After the chunk in which a key was taken nothing more is written (BAILR *)
(* after each do_tick(), and the check after the sleep of the bit fade     *)
(* test).                                                                  *)
KeyStopsWriting == [][bail => mem' = mem]_vars

(* After a key taken at a report, as much as the rest of the chunk is still *)
(* written: no more words than a chunk has, the first one on the way down  *)
(* has one more.  The address test is another matter: it has no tick before *)
(* it has walked through all memory (test.c:46-140).                       *)
LateInChunk == pat # 5 => late <= SPINSZ + 1

(* Memory is written only where the test is to write, and when a key has   *)
(* ended the test only to the end of the chunk.                            *)
WritesAllowed == []Confined /\ []LateInChunk /\ KeyStopsWriting

(* Every test comes to its end, its pointers as they wrap at the top of    *)
(* the address space included.                                             *)
TestEnds == <>At("over")
=============================================================================
