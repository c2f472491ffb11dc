------------------------------ MODULE DmaTable ------------------------------
(***************************************************************************)
(* The table of physical segments of a DMA transfer (AtapiDmaSetup): the   *)
(* buffer is taken page by page, and a page is merged with the segment     *)
(* before it when it follows it in memory, the segment does not become too *)
(* long and the page does not start at a boundary segments may not cross.  *)
(*                                                                         *)
(* Addresses are pairs of the upper and the lower 32 bits; the lower part  *)
(* and lengths count units of half a page.  A controller is a record h:    *)
(* host64, max (entries), frag (longest segment), bound (units between two *)
(* boundaries, 0 for none), bounce (the buffer below 4 GB, a lower part).  *)
(***************************************************************************)
EXTENDS Integers, Sequences, SequencesExt

PageUnits == 2

Segment(hi, lo, len) == [hi |-> hi, lo |-> lo, len |-> len]

(* The pieces of a transfer of count units: pages[i] is the physical page  *)
(* of the i-th page of the buffer, which starts off units into the first.  *)
Pieces(pages, off, count) ==
  LET n == (off + count + PageUnits - 1) \div PageUnits
      from(i) == IF i = 1 THEN off ELSE 0
      to(i) == IF i = n THEN off + count - (n - 1) * PageUnits ELSE PageUnits
  IN  [i \in 1 .. n |-> Segment(pages[i].hi, pages[i].no * PageUnits + from(i),
                                to(i) - from(i))]

(* The pages of the bounce buffer, which are contiguous. *)
BouncePieces(h, count) ==
  Pieces([i \in 1 .. count |-> [hi |-> 0, no |-> h.bounce + i - 1]], 0, count)

(* Without a look at the boundary. *)
MergesAcross(h, last, piece) ==
  /\ last.lo + last.len = piece.lo
  /\ last.len + piece.len <= h.frag

(* Only the lower halves of the addresses are compared. *)
Merges(h, last, piece) ==
  /\ last.lo + last.len = piece.lo
  /\ last.len + piece.len <= h.frag
  /\ h.bound = 0 \/ piece.lo % h.bound # 0

(* One turn of the loop: the piece becomes an entry of the table or part   *)
(* of the last entry, whose upper half it replaces.                        *)
AddPiece(h, t, piece) ==
  IF t # <<>> /\ Merges(h, Last(t), piece)
  THEN Append(Front(t), Segment(piece.hi, Last(t).lo, Last(t).len + piece.len))
  ELSE Append(t, piece)

(* The tables after each turn; all but the last must leave a free entry.   *)
Tables(h, pieces) ==
  LET t[n \in 0 .. Len(pieces)] ==
        IF n = 0 THEN <<>> ELSE AddPiece(h, t[n - 1], pieces[n])
  IN  t

NoTable == [ok |-> FALSE, table |-> <<>>, bounced |-> FALSE]

(* The table is full although pieces are to come. *)
Full(h, pieces) == \E n \in 1 .. Len(pieces) - 1 :
                      Len(Tables(h, pieces)[n]) >= h.max

Build(h, pieces, bounced) ==
  IF Full(h, pieces) THEN NoTable
  ELSE [ok |-> TRUE, table |-> Tables(h, pieces)[Len(pieces)],
        bounced |-> bounced]

(* AtapiDmaSetup for a request without a table. *)
Setup(h, pages, off, count, aligned) ==
  IF count = 0 \/ count > h.longest \/ ~aligned THEN NoTable
  ELSE LET pieces == Pieces(pages, off, count)
           high == SelectInSeq(pieces, LAMBDA e : e.hi # 0)
       IN  IF high = 0 \/ h.host64 THEN Build(h, pieces, FALSE)
           ELSE IF Full(h, SubSeq(pieces, 1, high)) THEN NoTable
           ELSE Build(h, BouncePieces(h, count), TRUE)

(* The units of a segment, and of all segments of a table, in order. *)
Unit(hi, lo) == [hi |-> hi, lo |-> lo]

UnitsOf(e) == [i \in 1 .. e.len |-> Unit(e.hi, e.lo + i - 1)]

Units(t) ==
  LET u[n \in 0 .. Len(t)] ==
        IF n = 0 THEN <<>> ELSE u[n - 1] \o UnitsOf(t[n])
  IN  u[Len(t)]

(* Unit number i of a buffer of pages, counted from the first page's start.*)
UnitAt(pages, i) == LET page == pages[i \div PageUnits + 1]
                    IN  Unit(page.hi, page.no * PageUnits + (i % PageUnits))
=============================================================================
