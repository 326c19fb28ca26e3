---------------------------- MODULE CacheBuffers ----------------------------
(***************************************************************************)
(* The buffer cache of the file system (cachebuffers.c), as operators on a *)
(* cache: a function from buffers to records.                              *)
(*                                                                         *)
(* At most two buffers hold a block: the ORIGINAL, a copy of the block on  *)
(* disk, and the LATEST, which the clients read and change.  One buffer    *)
(* with both flags is a block nobody has changed.                          *)
(*                                                                         *)
(* getcachebuffer takes the least recently used buffer that may be reused. *)
(* The order of use is abstracted: any buffer that may be reused can be    *)
(* the one taken.  An operator that may take a buffer therefore returns    *)
(* the SET of its outcomes, which is empty when no buffer can be taken.    *)
(***************************************************************************)
EXTENDS Naturals, FiniteSets, BlockDiffs

CONSTANTS Block,     \* block numbers
          Buffer,    \* the CacheBuffer structures
          NoBlock    \* the blckno of a buffer that holds no block

ASSUME NoBlockAssumption == NoBlock \notin Block

-----------------------------------------------------------------------------
(* Operations: what one transaction level does to one block. *)

Operation == [kind : {"none", "modify", "create", "delete"}, diff : Diff]
NoOperation == [kind |-> "none", diff |-> EmptyDiff]
DeleteOperation == [kind |-> "delete", diff |-> EmptyDiff]   \* OI_DELETE
ModifyOperation(diff) == [kind |-> "modify", diff |-> diff]
CreateOperation(diff) == [kind |-> "create", diff |-> diff]  \* OI_EMPTY

-----------------------------------------------------------------------------
(* Buffers. *)

CacheBuffer == [blck   : Block \cup {NoBlock},
                bits   : SUBSET {"ORIGINAL", "LATEST", "EMPTY"},
                locked : Nat,
                data   : Content]

Unused == [blck |-> NoBlock, bits |-> {}, locked |-> 0, data |-> Zero]
Holding(b, bits, data) ==
  [blck |-> b, bits |-> bits, locked |-> 0, data |-> data]

Originals(c, b) ==
  {x \in Buffer : c[x].blck = b /\ "ORIGINAL" \in c[x].bits}
Latests(c, b) == {x \in Buffer : c[x].blck = b /\ "LATEST" \in c[x].bits}
Original(c, b) == CHOOSE x \in Buffer : x \in Originals(c, b)
Latest(c, b) == CHOOSE x \in Buffer : x \in Latests(c, b)

OriginalOnly(buf) == buf.bits \cap {"ORIGINAL", "LATEST"} = {"ORIGINAL"}
LatestOnly(buf) == buf.bits \cap {"ORIGINAL", "LATEST"} = {"LATEST"}

\* A wrong getcachebuffer, for TLC: it takes a buffer that is locked.
ReusableLocked(c) ==
  {x \in Buffer : OriginalOnly(c[x]) => Latests(c, c[x].blck) = {}}

\* The buffers getcachebuffer may return.
Reusable(c) ==
  {x \in Buffer : /\ c[x].locked = 0
                  /\ OriginalOnly(c[x]) => Latests(c, c[x].blck) = {}}

\* A buffer taken and reset, and then not used to hold a block.
Evictions(c) == {[c EXCEPT ![x] = Unused] : x \in Reusable(c)}

CreateNewCacheBuffer(c, b, data) ==
  {[cache |-> [c EXCEPT ![x] = Holding(b, {"LATEST", "EMPTY"}, data)],
    cb |-> x] : x \in Reusable(c)}

\* The copy becomes the ORIGINAL; x, locked meanwhile, becomes the LATEST.
SaveOriginalCacheBuffer(c, x) ==
  LET taken == Reusable([c EXCEPT ![x].locked = @ + 1])
      copy == Holding(c[x].blck, {"ORIGINAL"}, c[x].data)
  IN {[c EXCEPT ![y] = copy,
                ![x].bits = (@ \ {"ORIGINAL"}) \cup {"LATEST"}] : y \in taken}

ReadOriginalCacheBuffer(c, b, o, disk) ==
  LET bits == IF o = NoOperation THEN {"ORIGINAL", "LATEST"}
                                 ELSE {"ORIGINAL"}
  IN IF Originals(c, b) # {}
       THEN {[cache |-> c, cb |-> Original(c, b)]}
       ELSE {[cache |-> [c EXCEPT ![x] = Holding(b, bits, disk[b])],
              cb |-> x] : x \in Reusable(c)}

\* transactions.c: makes the latest version of b from its latest operation o.
ApplyOperation(c, b, o, disk) ==
  LET originals == ReadOriginalCacheBuffer(c, b, o, disk)
      Decoded(d, x) ==
        [cache |-> [d EXCEPT ![x].data = Uncompress(@, o.diff)], cb |-> x]
  IN CASE o.kind = "none" -> originals
       [] o.kind = "create" -> CreateNewCacheBuffer(c, b, o.diff)
       [] OTHER -> UNION {{Decoded(d, r.cb) :
                             d \in SaveOriginalCacheBuffer(r.cache, r.cb)} :
                          r \in originals}

ReadCacheBuffer(c, b, o, disk) ==
  IF Latests(c, b) # {} THEN {[cache |-> c, cb |-> Latest(c, b)]}
                        ELSE ApplyOperation(c, b, o, disk)

\* A wrong preparecachebuffer, for TLC: no copy is kept.
PrepareCacheBufferInPlace(c, x) == {[c EXCEPT ![x].locked = @ + 1]}

\* Locks x and keeps a copy of what it held, if it is the original.
PrepareCacheBuffer(c, x) ==
  LET d == [c EXCEPT ![x].locked = @ + 1]
  IN IF "ORIGINAL" \in d[x].bits THEN SaveOriginalCacheBuffer(d, x) ELSE {d}

NewCacheBuffer(c, b) ==
  IF Latests(c, b) # {}
    THEN {[d EXCEPT ![Latest(c, b)].data = Zero] :
            d \in PrepareCacheBuffer(c, Latest(c, b))}
    ELSE {[r.cache EXCEPT ![r.cb].locked = 1] :
            r \in CreateNewCacheBuffer(c, b, Zero)}

\* The operation storecachebuffer makes of a changed buffer x.
StoredOperation(c, x) ==
  IF "EMPTY" \in c[x].bits
    THEN CreateOperation(CompressFromZero(c[x].data))
    ELSE ModifyOperation(
           Compress(c[Original(c, c[x].blck)].data, c[x].data))

\* A wrong restorecachebuffer, for TLC: the older operation is made on the
\* changed data, and not on the original.
RestoreCacheBufferInPlace(c, x, o) ==
  LET org == Original(c, c[x].blck)
      empty == "EMPTY" \in c[x].bits
  IN CASE o.kind # "none" -> [c EXCEPT ![x].data = Uncompress(@, o.diff)]
       [] o.kind = "none" /\ empty -> [c EXCEPT ![x].data = Zero]
       [] OTHER -> [c EXCEPT ![x].data = c[org].data,
                             ![x].bits = @ \cup {"ORIGINAL", "LATEST"},
                             ![org] = Unused]

\* Another one: the copy of the original is not emptied.
RestoreCacheBufferTwoOriginals(c, x, o) ==
  LET org == Original(c, c[x].blck)
  IN IF "EMPTY" \in c[x].bits
       THEN [c EXCEPT ![x].data = Uncompress(Zero, o.diff)]
     ELSE IF o.kind # "none"
       THEN [c EXCEPT ![x].data = Uncompress(c[org].data, o.diff)]
     ELSE [c EXCEPT ![x].data = c[org].data,
                    ![x].bits = @ \cup {"ORIGINAL", "LATEST"}]

\* transactions.c: brings a LATEST buffer back to what its latest operation
\* o says, or to the original, or clears it when it never had one.
RestoreCacheBuffer(c, x, o) ==
  LET org == Original(c, c[x].blck)
      empty == "EMPTY" \in c[x].bits
  IN CASE o.kind = "create" -> [c EXCEPT ![x].data = Uncompress(@, o.diff)]
       [] o.kind \in {"modify", "delete"} /\ ~empty ->
            [c EXCEPT ![x].data = Uncompress(c[org].data, o.diff)]
       [] o.kind # "create" /\ empty -> [c EXCEPT ![x].data = Zero]
       [] OTHER -> [c EXCEPT ![x].data = c[org].data,
                             ![x].bits = @ \cup {"ORIGINAL", "LATEST"},
                             ![org] = Unused]

\* Buffers holding b are reset, whatever they are.
EmptyBuffers(c, S) == [x \in Buffer |-> IF x \in S THEN Unused ELSE c[x]]
=============================================================================
