------------------------------- MODULE IOCache -------------------------------
(***************************************************************************)
(* The device cache (cachedio.c) over the device (transfer in deviceio.c). *)
(* A cache line covers LineSize blocks, of which some are valid and some   *)
(* of these dirty.  The state of an operation on its way is a record: the  *)
(* lines, what is on the device, how many more transfers are going to      *)
(* succeed (left) and whether one has failed (error), for every operation  *)
(* returns at its first error: the operators leave a state with an error   *)
(* as it is.                                                               *)
(*                                                                         *)
(* Data is abstracted to whether it is what was written to the block last: *)
(* fresh in a line, disk for the device.  A block is doubtful after a      *)
(* write of it failed half way, until it is written again.  The line that  *)
(* validateiocache reads into (ioc_buffer) is locked and not in lru.       *)
(***************************************************************************)
EXTENDS Integers, FiniteSets

CONSTANTS Total,        \* blocks_total
          LineSize,     \* iocache_sizeinblocks, a power of two
          Lines,        \* iocache_lines
          MaxTransfer,  \* blocks_maxtransfer
          Reads,        \* the areas clients read, each <<block, blocks>>
          Writes,       \* the areas clients write
          Words,        \* the blocks readbytes and writebytes are used on
          Lefts,        \* how many transfers succeed before one fails
          OverDirty     \* whether a large write may go through a buffer and
                        \* leave other blocks dirty in a line it overlaps

ASSUME CacheAssumption ==
  /\ Total \in Nat \ {0} /\ LineSize \in Nat \ {0, 1}
  /\ Lines \in Nat /\ Lines >= 4   \* "There MUST be atleast 4" (initcachedio)
  /\ MaxTransfer \in Nat \ {0} /\ Lefts \subseteq Nat
  /\ Reads \cup Writes \subseteq Nat \X (Nat \ {0})
  /\ \A a \in Reads \cup Writes : a[1] + a[2] <= Total
  /\ Words \subseteq 0..(Total - 1)
  /\ OverDirty \in BOOLEAN

VARIABLES lru,       \* the lines from the least to the most recently used
          lines,     \* the contents of every line, Empty when not in lru
          disk,      \* the blocks of which the device has the latest data
          copyback, readonwrite,    \* iocache_copyback, iocache_readonwrite
          doubtful,  \* the blocks a failed write leaves in the dark
          misread    \* a read that succeeded has returned old data

vars == <<lru, lines, disk, copyback, readonwrite, doubtful, misread>>

Blocks == 0..(Total - 1)
LineOf(b) == b \div LineSize
LineNumbers == 0..LineOf(Total - 1)
Line(l) == {b \in Blocks : LineOf(b) = l}
Area(a) == a[1]..(a[1] + a[2] - 1)
Unused == LineOf(Total - 1) + 1     \* an IOCache with blocks = 0
Empty == [valid |-> {}, fresh |-> {}, dirty |-> {}, changed |-> FALSE]
Lowest(S) == CHOOSE b \in S : \A c \in S : b <= c
Highest(S) == CHOOSE b \in S : \A c \in S : b >= c

\* How many lines lru has: validateiocache has one for itself.
InLru == IF readonwrite THEN Lines ELSE Lines - 1
NoLines(n) == [i \in 1..n |-> Unused]
NoContents == [l \in LineNumbers |-> Empty]

Init ==
  /\ copyback = TRUE /\ readonwrite = FALSE     \* setiocache(8, 8192, TRUE)
  /\ lru = NoLines(Lines - 1) /\ lines = NoContents
  /\ disk = Blocks /\ doubtful = {} /\ misread = FALSE

Begin(left) == [lru |-> lru, lines |-> lines, disk |-> disk,
                left |-> left, error |-> FALSE]

-----------------------------------------------------------------------------
(* transfer: in pieces of MaxTransfer blocks, up to the first that fails     *)
(* after its retries.                                                        *)

Pieces(n) == (n + MaxTransfer - 1) \div MaxTransfer
Failed(s) == [s EXCEPT !.error = TRUE]

ReadDevice(s, area) ==
  LET n == Pieces(Cardinality(area))
  IN IF s.error THEN s
     ELSE IF s.left < n THEN Failed(s) ELSE [s EXCEPT !.left = @ - n]

\* The blocks in latest are written with the latest data, the others of the
\* area are not.
WriteDevice(s, area, latest) ==
  LET n == Pieces(Cardinality(area))
      done == IF s.left < n
                THEN {b \in area : b < Lowest(area) + s.left * MaxTransfer}
                ELSE area
      written == [s EXCEPT !.disk = (@ \ done) \cup (latest \cap done)]
  IN IF s.error THEN s
     ELSE IF s.left < n THEN Failed(written) ELSE [written EXCEPT !.left = @ - n]

-----------------------------------------------------------------------------
(* The lines.                                                                *)

\* findiocache
Cached(s, l) == \E i \in 1..InLru : s.lru[i] = l /\ l # Unused

ToTail(order, place) ==
  [i \in 1..InLru |-> IF i < place THEN order[i]
                      ELSE IF i < InLru THEN order[i + 1] ELSE order[place]]
Used(s, place) == [s EXCEPT !.lru = ToTail(@, place)]
Locate(s, l) == Used(s, CHOOSE i \in 1..InLru : s.lru[i] = l)

\* The line is the last of lru.
NewLine(s, l, valid) ==
  IF s.error THEN s
  ELSE [s EXCEPT !.lru[InLru] = l,
                 !.lines[l] = [valid |-> valid, fresh |-> s.disk \cap valid,
                               dirty |-> {}, changed |-> FALSE]]

\* A wrong Completed, for TLC: what was read replaces the dirty blocks, too.
CompletedOverDirty(s, l) ==
  IF s.error THEN s
  ELSE [s EXCEPT !.lines[l].valid = Line(l),
                 !.lines[l].fresh = s.disk \cap Line(l)]

\* The blocks of a line that are not dirty, as they are on the device.
Completed(s, l) ==
  LET kept == s.lines[l].dirty
  IN IF s.error THEN s
     ELSE [s EXCEPT !.lines[l].valid = Line(l),
                    !.lines[l].fresh =
                       (@ \cap kept) \cup (s.disk \cap (Line(l) \ kept))]

\* validateiocache
Validate(s, l, blocks) ==
  IF s.error \/ readonwrite \/ blocks \subseteq s.lines[l].valid THEN s
  ELSE Completed(ReadDevice(s, Line(l)), l)

Unsaved(s, l) == l \in LineNumbers /\ s.lines[l].changed /\ s.lines[l].dirty # {}
Span(line) == Lowest(line.dirty)..Highest(line.dirty)
Cleaned(s, l) ==
  IF s.error THEN s
  ELSE [s EXCEPT !.lines[l].dirty = {}, !.lines[l].changed = FALSE]

\* The dirty blocks of a line and what is between them, in one write.
CopyBackLine(s, l) ==
  LET line == s.lines[l]
      v == IF Span(line) \subseteq line.valid THEN s ELSE Validate(s, l, Line(l))
      w == IF v.error THEN v ELSE WriteDevice(v, Span(line), v.lines[l].fresh)
  IN IF s.error \/ ~Unsaved(s, l) THEN s ELSE Cleaned(w, l)

\* copybackiocache: this line, and then those that follow on the disk.
CopyBack(s, l) ==
  LET many == Lowest({i \in 0..Total : ~Unsaved(s, l + i)})
      after[i \in 0..many] == IF i = 0 THEN s
                              ELSE CopyBackLine(after[i - 1], l + i - 1)
  IN after[many]

\* lruiocache: the line is the last of lru then, and not in use.
LruLine(s) ==
  LET c == CopyBack(Used(s, 1), s.lru[1])
  IN IF s.error THEN s
     ELSE IF c.error THEN c
     ELSE [c EXCEPT !.lru[InLru] = Unused,
                    !.lines = [l \in LineNumbers |->
                                 IF l = s.lru[1] THEN Empty ELSE @[l]]]

\* readintocache, and readonwriteintocache when it reads
ReadIntoCache(s, l) ==
  IF s.error THEN s
  ELSE IF Cached(s, l) THEN Locate(s, l)
  ELSE NewLine(ReadDevice(LruLine(s), Line(l)), l, Line(l))

\* readonwriteintocache
ReadOnWriteIntoCache(s, l) ==
  IF readonwrite \/ Cached(s, l) THEN ReadIntoCache(s, l)
  ELSE NewLine(LruLine(s), l, {})

\* The lines of an area, one after the other.
First(area) == LineOf(Lowest(area))
LinesOf(area) == LineOf(Highest(area)) - First(area) + 1

\* copybackoverlappingiocaches
CopyBackCached(s, l) ==
  IF s.error \/ ~Cached(s, l) THEN s ELSE CopyBack(Locate(s, l), l)
CopyBackOverlapping(s, area) ==
  LET after[i \in 0..LinesOf(area)] ==
        IF i = 0 THEN s ELSE CopyBackCached(after[i - 1], First(area) + i - 1)
  IN after[LinesOf(area)]

\* A block of the area is written: what there is of it elsewhere gets old.
Aged(s, area) ==
  IF s.error THEN s
  ELSE [s EXCEPT !.disk = @ \ area,
                 !.lines = [l \in LineNumbers |->
                              [s.lines[l] EXCEPT !.fresh = @ \ area]]]

\* writethroughoverlappingiocaches
WriteThroughLine(s, l, area) ==
  IF ~Cached(s, l) THEN s
  ELSE [Locate(s, l) EXCEPT
          !.lines[l].dirty =
             IF copyback /\ s.lines[l].changed THEN @ \ area ELSE @,
          !.lines[l].valid = @ \cup (area \cap Line(l)),
          !.lines[l].fresh = @ \cup (area \cap Line(l))]
WriteThroughOverlapping(s, area) ==
  LET after[i \in 0..LinesOf(area)] ==
        IF i = 0 THEN Aged(s, area)
        ELSE WriteThroughLine(after[i - 1], First(area) + i - 1, area)
  IN IF s.error THEN s ELSE after[LinesOf(area)]

\* getbuffer, when the client's buffer is out of the device's reach.  Its line
\* is the next one to be used.  What happens when copying it back fails is not
\* modelled: lruiocache returns no line then, and getbuffer goes on with none.
GetBuffer(s) ==
  LET l == LruLine(s)
  IN IF l.error THEN l
     ELSE [l EXCEPT !.lru = [i \in 1..InLru |-> IF i = 1 THEN Unused
                                                         ELSE @[i - 1]]]
NoBuffer(s) == ~s.error /\ GetBuffer(s).error

-----------------------------------------------------------------------------
(* The operations of the cache's clients.                                    *)

Return(s) == /\ lru' = s.lru /\ lines' = s.lines /\ disk' = s.disk
             /\ UNCHANGED <<copyback, readonwrite>>

\* What a read that has come to s without an error took from the fresh blocks.
Returned(s, area, fresh) ==
  misread' = (misread \/ (~s.error /\ ~(area \subseteq fresh \cup doubtful)))

\* Part of a small read: the blocks of one line.
ReadPart(s, area) ==
  IF area = {} THEN s
  ELSE Validate(ReadIntoCache(s, First(area)), First(area), area)

\* What copying a part from its line finds there.
Copied(s, area) ==
  {b \in area : b \in s.lines[LineOf(b)].fresh \cap s.lines[LineOf(b)].valid}

\* read, of no more than half a line, and readbytes: through the cache.
ReadThroughCache(area, left) ==
  LET part == area \cap Line(First(area))
      p == ReadPart(Begin(left), part)
      s == ReadPart(p, area \ part)
  IN /\ 2 * Cardinality(area) <= LineSize
     /\ Return(s)
     /\ Returned(s, area, Copied(p, part) \cup Copied(s, area \ part))
     /\ UNCHANGED doubtful

\* A wrong ReadDirectly, for TLC: straight from the device.
ReadDirectlyUncopied(area, left, buffered) ==
  LET r == ReadDevice(Begin(left), area)
  IN /\ 2 * Cardinality(area) > LineSize
     /\ Return(r) /\ Returned(r, area, r.disk)
     /\ UNCHANGED doubtful

\* read, of more: what is dirty there is copied back first.
ReadDirectly(area, left, buffered) ==
  LET c == CopyBackOverlapping(Begin(left), area)
      s == ReadDevice(IF buffered THEN GetBuffer(c) ELSE c, area)
  IN /\ 2 * Cardinality(area) > LineSize
     /\ buffered => ~NoBuffer(c)
     /\ Return(s) /\ Returned(s, area, s.disk)
     /\ UNCHANGED doubtful

SmallWrite == IF LineSize \div 4 = 0 THEN 1 ELSE LineSize \div 4

Dirtied(s, l, area) ==
  IF s.error \/ area = {} THEN s
  ELSE [s EXCEPT !.lines[l] = [changed |-> TRUE, dirty |-> @.dirty \cup area,
                               valid |-> @.valid \cup area,
                               fresh |-> @.fresh \cup area]]

\* write, of no more than a quarter of a line: into one or two lines, with
\* "a trick, which works because cachesystem consists of atleast 4 blocks".
WriteIntoCache(area, left) ==
  LET first == First(area)
      last == LineOf(Highest(area))
      in == ReadOnWriteIntoCache(ReadOnWriteIntoCache(Begin(left), first), last)
      s == Dirtied(Dirtied(WriteThroughOverlapping(in, area),
                           first, area \cap Line(first)),
                   last, area \ Line(first))
  IN /\ copyback /\ Cardinality(area) <= SmallWrite
     /\ Return(s)
     /\ doubtful' = IF s.error THEN doubtful ELSE doubtful \ area
     /\ UNCHANGED misread

\* The known defect: a buffer for the write is found by copying lines back, and
\* one of them is a line the write overlaps, which has other dirty blocks: it is
\* completed from the device, before the device has the new data.
Harmless(area) ==
  \A l \in LineNumbers : Line(l) \cap area # {} => lines[l].dirty \subseteq area

\* write, of more, or without copyback; writethrough: the lines get the new data
\* before the device does.
WriteDirectly(area, left, buffered) ==
  LET o == WriteThroughOverlapping(Begin(left), area)
      w == WriteDevice(IF buffered THEN GetBuffer(o) ELSE o, area, area)
  IN /\ ~copyback \/ Cardinality(area) > SmallWrite
     /\ buffered => ~NoBuffer(o) /\ (OverDirty \/ Harmless(area))
     /\ Return(w)
     /\ doubtful' = IF w.error THEN doubtful \cup area ELSE doubtful \ area
     /\ UNCHANGED misread

\* writebytes, a part of block b: read, changed in the line, and written when
\* there is no copyback.  With what a failed write left of it, it is doubtful.
WriteBytes(b, left) ==
  LET v == ReadPart(Begin(left), {b})
      s == IF copyback THEN Dirtied(Aged(v, {b}), LineOf(b), {b})
           ELSE WriteDevice(WriteThroughOverlapping(v, {b}), {b}, {b})
  IN /\ Return(s)
     /\ doubtful' = IF s.error /\ ~v.error THEN doubtful \cup {b}
                    ELSE doubtful
     /\ UNCHANGED misread

\* A wrong Flushed, for TLC: only the line that is used least.
FlushedFirst(s) == CopyBack(s, s.lru[1])

\* flushiocache.  What the device says to CMD_UPDATE is not looked at.
Flushed(s) ==
  LET after[i \in 0..InLru] == IF i = 0 THEN s
                               ELSE CopyBack(after[i - 1], s.lru[i])
  IN after[InLru]

FlushIOCache(left) == /\ Return(Flushed(Begin(left)))
                      /\ UNCHANGED <<doubtful, misread>>

\* invalidateiocaches, "BEFORE directly writing to the disk" and after a flush
Invalidate ==
  /\ \A l \in LineNumbers : lines[l].dirty = {}
  /\ lru' = NoLines(InLru) /\ lines' = NoContents
  /\ UNCHANGED <<disk, copyback, readonwrite, doubtful, misread>>

\* New lines, of which one is locked when blocks can be missing in a line.
NewCache(newcopyback) ==
  /\ copyback' = newcopyback
  /\ readonwrite' = (readonwrite \/ ~newcopyback)
  /\ lru' = NoLines(IF readonwrite' THEN Lines ELSE Lines - 1)
  /\ lines' = NoContents

\* A wrong SetIOCache, for TLC: new lines whatever became of the old ones.
SetIOCacheAnyway(newcopyback, left) ==
  /\ NewCache(newcopyback)
  /\ disk' = Flushed(Begin(left)).disk
  /\ UNCHANGED <<doubtful, misread>>

\* setiocache: new lines, once the old ones are flushed.
SetIOCache(newcopyback, left) ==
  LET s == Flushed(Begin(left))
  IN /\ IF s.error THEN Return(s)
                   ELSE NewCache(newcopyback) /\ disk' = s.disk
     /\ UNCHANGED <<doubtful, misread>>

Next ==
  \E left \in Lefts :
    \/ \E a \in Reads : \/ ReadThroughCache(Area(a), left)
                        \/ \E buffered \in BOOLEAN :
                             ReadDirectly(Area(a), left, buffered)
    \/ \E b \in Words : ReadThroughCache({b}, left) \/ WriteBytes(b, left)
    \/ \E a \in Writes : \/ WriteIntoCache(Area(a), left)
                         \/ \E buffered \in BOOLEAN :
                              WriteDirectly(Area(a), left, buffered)
    \/ FlushIOCache(left)
    \/ Invalidate
    \/ \E newcopyback \in BOOLEAN : SetIOCache(newcopyback, left)

Spec == Init /\ [][Next]_vars

-----------------------------------------------------------------------------
\* "valid: Block is the same as on disk.  valid & dirty: Block is newer than
\* the one on disk" (struct IOCache): every valid block of a line is the one
\* written last, and unless it is dirty the device has it as well.  The blocks
\* of a write that failed are exempt: they are valid, and not on the disk.
ValidIsDisk ==
  \A l \in LineNumbers : \A b \in lines[l].valid \ doubtful :
    /\ b \in lines[l].fresh
    /\ b \in disk \cup lines[l].dirty

\* What was written and not overwritten can still be read: a block the device
\* does not have is dirty in its line, which is in lru, and will be copied back.
NothingLost ==
  \A b \in Blocks \ (disk \cup doubtful) :
    /\ b \in lines[LineOf(b)].dirty
    /\ \E i \in 1..InLru : lru[i] = LineOf(b)

\* No read that succeeds, through the cache or past it, returns anything but
\* what was written last.
ReadsReturnLatest == ~misread

\* When blocks whose latest data the device should have are not there after a
\* flush, the flush has returned an error.
FlushIsComplete ==
  [][~(Blocks \ doubtful \subseteq disk')
       => \A left \in Lefts :
            FlushIOCache(left) => Flushed(Begin(left)).error]_vars
=============================================================================
