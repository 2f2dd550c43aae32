------------------------------ MODULE Segments ------------------------------
(***************************************************************************)
(* The address arithmetic of memtest86+: the windows[] table (main.c), the *)
(* segments of a window (compute_segments), the virtual addresses they are *)
(* tested at (mapping, emapping, page_of of init.c) and the number of      *)
(* selected pages (adj_mem of config.c).                                   *)
(*                                                                         *)
(* Addresses are counted in lines of 256 bytes, the alignment the program  *)
(* itself relies on: _end is 256-byte aligned, emapping() ends a segment   *)
(* at page offset 0xf00 and the BIOS area it must not touch ends at 0x500. *)
(* A page has PageLines = 16 of them (fewer in the checked instances).     *)
(***************************************************************************)
EXTENDS Integers, Sequences, FiniteSets

CONSTANTS
  PageLines,    \* 256-byte lines in a page (0x1000 >> 8)
  WindowPages,  \* pages in a 2 GB window (0x80000)
  NumWindows    \* entries of windows[] (33)

ASSUME PageLinesAssumption   == PageLines \in Nat \ {0}
ASSUME WindowPagesAssumption == WindowPages \in Nat \ {0}
ASSUME NumWindowsAssumption  == NumWindows \in Nat /\ NumWindows >= 2

-----------------------------------------------------------------------------
(* Mistakes: definitions named X_with_... are those a plausible slip in the  *)
(* code would give; each breaks one of the properties.                     *)
Window_with_low_copy(win, start0, end1) ==
  CASE win = 0 -> [start |-> 0, end |-> WindowPages]
    [] win = 1 -> [start |-> 0, end |-> end1]
    [] OTHER   -> [start |-> (win - 1) * WindowPages, end |-> win * WindowPages]

(* windows[win]: entry 0 starts after the low copy of the program (start0) *)
(* and entry 1 ends at the high copy (end1); both are set when the program *)
(* initialises and are 0 before.  The others are the 2 GB slices above.    *)
Window(win, start0, end1) ==
  CASE win = 0 -> [start |-> start0, end |-> WindowPages]
    [] win = 1 -> [start |-> 0, end |-> end1]
    [] OTHER   -> [start |-> (win - 1) * WindowPages, end |-> win * WindowPages]

(* The virtual line of the first byte of a page: the first 2 GB are mapped *)
(* one to one, every other window is reached through the second 2 GB.      *)
mapping(page) ==
  IF page < WindowPages
  THEN page * PageLines
  ELSE ((page % WindowPages) + WindowPages) * PageLines

(* The end address of a segment whose last page is page - 1.               *)
emapping(page) == mapping(page - 1) + (PageLines - 1)

(* The physical line behind a virtual one when mapped_window = mw.         *)
page_of(line, mw) ==
  IF line < WindowPages * PageLines
  THEN line
  ELSE line - WindowPages * PageLines + mw * WindowPages * PageLines

-----------------------------------------------------------------------------
Clip_with_no_upper(seg, win, lower, upper) ==
  LET wstart == IF win.start < lower THEN lower ELSE win.start
  IN  [start |-> IF seg.start <= wstart THEN wstart ELSE seg.start,
       end   |-> IF seg.end >= win.end THEN win.end ELSE seg.end]

(* The part of a memory map entry inside the window and the limits.        *)
Clip(seg, win, lower, upper) ==
  LET wstart == IF win.start < lower THEN lower ELSE win.start
      wend   == IF win.end > upper THEN upper ELSE win.end
  IN  [start |-> IF seg.start <= wstart THEN wstart ELSE seg.start,
       end   |-> IF seg.end >= wend THEN wend ELSE seg.end]

(* v->map[0 .. segs-1] after compute_segments(win).  The array lists the   *)
(* memory map entries that reach into the window in the order of the map;  *)
(* it is kept here as a function on the indices of those entries.          *)
compute_segments(pmap, win, lower, upper) ==
  LET clip(i) == Clip(pmap[i], win, lower, upper)
      hit     == {i \in DOMAIN pmap : clip(i).start < clip(i).end}
  IN  [i \in hit |-> [pbase_addr |-> clip(i).start,
                      start      |-> mapping(clip(i).start),
                      end        |-> emapping(clip(i).end)]]

(* Entry i of the function is element Position(m, i) of the C array.       *)
Position(m, i) == Cardinality({k \in DOMAIN m : k < i})

(* v->map[0]: the entry no other one precedes.                             *)
IsFirst(m, i) == \A k \in DOMAIN m : i <= k

-----------------------------------------------------------------------------

(* adj_mem(): what one memory map entry adds to v->selected_pages.         *)
SelectedPart(seg, lower, upper) ==
  CASE seg.start >= lower /\ seg.end <= upper -> seg.end - seg.start
    [] seg.start < lower ->
         (IF seg.end < lower THEN 0
          ELSE IF seg.end > upper THEN upper - lower ELSE seg.end - lower)
    [] OTHER -> IF seg.start > upper THEN 0 ELSE upper - seg.start

adj_mem(pmap, lower, upper) ==
  LET sum[i \in 0 .. Len(pmap)] ==
        IF i = 0 THEN 0 ELSE sum[i - 1] + SelectedPart(pmap[i], lower, upper)
  IN  sum[Len(pmap)]

(* The pages of the memory map inside the limits: what adj_mem() counts    *)
(* and what the windows together are to cover.                             *)
SelectedPages(pmap, lower, upper) ==
  UNION {{page \in pmap[i].start .. pmap[i].end - 1 :
            lower <= page /\ page < upper} : i \in DOMAIN pmap}
=============================================================================
