------------------------------ MODULE FileStore ------------------------------
(***************************************************************************)
(* What the file system promises of files to its clients: a file has a     *)
(* size, and each lock that is open for I/O a position in its file.  The   *)
(* position only moves when its own client reads, writes or seeks, or when *)
(* the file becomes shorter.  Where the blocks of a file are, and that the *)
(* defragmenter moves them, cannot be seen.                                *)
(***************************************************************************)
EXTENDS Naturals

CONSTANTS Files, Locks, NoFile

VARIABLES size,    \* size[f]
          pos      \* pos[l]: the file and the offset of a lock

Closed == [file |-> NoFile, offset |-> 0]
Opened(f) == \E l \in Locks : pos[l].file = f

Init == size = [f \in Files |-> 0] /\ pos = [l \in Locks |-> Closed]

Open(l, f) == /\ pos[l] = Closed
              /\ pos' = [pos EXCEPT ![l] = [file |-> f, offset |-> 0]]
              /\ UNCHANGED size

Close(l) == pos' = [pos EXCEPT ![l] = Closed] /\ UNCHANGED size

Seek(l) ==
  /\ pos[l] # Closed
  /\ \E offset \in 0..size[pos[l].file] :
       pos' = [pos EXCEPT ![l].offset = offset]
  /\ UNCHANGED size

Write(l) ==
  LET f == pos[l].file
  IN /\ pos[l] # Closed
     /\ pos'[l].offset > pos[l].offset
     /\ pos' = [pos EXCEPT ![l].offset = pos'[l].offset]
     /\ size' = [size EXCEPT
          ![f] = IF @ < pos'[l].offset THEN pos'[l].offset ELSE @]

SetFileSize(l) ==
  LET f == pos[l].file
  IN /\ pos[l] # Closed
     /\ size' = [size EXCEPT ![f] = size'[f]]
     /\ pos' = [k \in Locks |->
          IF pos[k].file = f /\ pos[k].offset > size'[f]
            THEN [pos[k] EXCEPT !.offset = size'[f]] ELSE pos[k]]

Delete(f) == /\ ~Opened(f)
             /\ size' = [size EXCEPT ![f] = 0]
             /\ UNCHANGED pos

Next == \/ \E l \in Locks : \/ Close(l) \/ Seek(l) \/ Write(l)
                            \/ SetFileSize(l) \/ \E f \in Files : Open(l, f)
        \/ \E f \in Files : Delete(f)

Spec == Init /\ [][Next]_<<size, pos>>
=============================================================================
